---------------------------- MODULE Spec2Model ----------------------------
(***************************************************************************)
(* A model of the FBX binary importer: src/src/fbx.rs and the files of     *)
(* src/src/fbx, and of the triangulating mesh processor:                   *)
(* src/src/mesh_processor/triangulate_processor.rs and                     *)
(* src/src/polygon_utils.rs.                                               *)
(*                                                                         *)
(* A stream is a sequence of bytes (0..255) and a 0-based position.  The   *)
(* decoders of property.rs are operators from (stream, position) to a      *)
(* result; parse_header / parse_node / parse_nodes are a state machine     *)
(* with an explicit call stack, one frame per active parse_node call.      *)
(* import and FaceIterator work on decoded node records.                   *)
(*                                                                         *)
(* Numbers: TLC's integers are 32-bit signed.  An u32 read from the stream *)
(* that is 2^31 or more is represented by 2^31 - 1 (U32Clamp): the code    *)
(* only compares such a value with stream lengths and positions, all of    *)
(* which are far below it, or tests it for zero.  Values of 8 bytes (i64,  *)
(* f64) and floats are kept as their little-endian byte tuples: the bit    *)
(* pattern is the value.                                                   *)
(*                                                                         *)
(* Specifications, all over the same variables:                            *)
(*   Spec          parse_fbx on files (well-formed, one byte changed,      *)
(*                 truncated)                                              *)
(*   SpecProperty  parse_properties on property buffers                    *)
(*   SpecFaces     get_faces' loop over the FaceIterator of an index array *)
(*   SpecImport    import on root node collections, then the processor     *)
(*                 loops of import_fbx                                     *)
(*   SpecCollection  insert calls on a new NodeCollection                  *)
(*   SpecFair      parse_fbx under weak fairness of its step, on the files *)
(*                 without compressed arrays                               *)
(*   SpecTriangulate  TriangulateMeshProcessor.process on one mesh         *)
(***************************************************************************)
EXTENDS Integers, Sequences, FiniteSets, TLC

VARIABLES
    data,      \* the bytes of the stream (the file, or a property buffer)
    pos,       \* the stream position, 0-based
    pc,        \* where the decoder is
    stack,     \* the active parse_node calls, innermost last
    result,    \* parse_nodes' result vector
    err,       \* the error or panic that ended decoding
    version,   \* Header.version, -1 before parse_header returned
    nodes,     \* import's argument: the root NodeCollection
    gi,        \* import: index of the next Geometry node
    meshes,    \* import: the meshes built so far
    scene,     \* import's return value
    ipc,       \* where import is
    fpc,       \* where get_faces' loop over the FaceIterator is
    indices,   \* FaceIterator: the i32 array iterated over
    iter,      \* FaceIterator: how many elements self.indices has yielded
    faces,     \* the faces collected from FaceIterator
    mesh_processors, \* import_fbx's argument: the processors, by name
    mi,        \* import_fbx: index of the mesh of the outer loop
    pj,        \* import_fbx: index of the next processor of the inner loop
    calls,     \* the calls of process made so far, in order
    tmesh,     \* TriangulateMeshProcessor.process: its argument mesh
    new_faces, \* process: the local vector new_faces
    face_counter,     \* process: how many faces of mesh.faces the loop has taken
    clipped_vertices, \* process: the flags of the face being triangulated
    polygon_size,     \* process: the vertices of that face not yet clipped
    i_for,     \* process: the index i of the for loop over the face
    writable,  \* whether the images of debug_face and process can be saved
    tpc        \* where process is

parseVars  == <<data, pos, pc, stack, result, err, version>>
importVars == <<nodes, gi, meshes, scene, ipc>>
faceVars == <<indices, iter, faces, fpc>>
fbxVars    == <<mesh_processors, mi, pj, calls>>
triVars    == <<tmesh, new_faces, face_counter, clipped_vertices, polygon_size,
                i_for, writable, tpc>>
vars       == <<parseVars, importVars, faceVars, fbxVars, triVars>>

(***************************************************************************)
(* Bytes and sequences                                                     *)
(***************************************************************************)
Byte == 0..255

Take(s, n) == SubSeq(s, 1, n)
Drop(s, n) == SubSeq(s, n + 1, Len(s))
Last(s)    == s[Len(s)]
Front(s)   == SubSeq(s, 1, Len(s) - 1)

\* The n bytes of stream d at position p.
Bytes(d, p, n) == SubSeq(d, p + 1, p + n)

\* read_exact of n bytes at p succeeds iff that many bytes are left.
CanRead(d, p, n) == n >= 0 /\ n <= Len(d) - p

Zeros(n) == [i \in 1..n |-> 0]

RECURSIVE Concat(_)
Concat(ss) == IF ss = <<>> THEN <<>> ELSE ss[1] \o Concat(Tail(ss))

\* The representative of every u32 value of 2^31 or more.
U32Clamp == 127 * 16777216 + 16777215

\* reader.read_u32::<LittleEndian>() on the 4 bytes b.
LeU32(b) ==
    IF b[4] >= 128 THEN U32Clamp
    ELSE b[1] + 256 * b[2] + 65536 * b[3] + 16777216 * b[4]

\* reader.read_i32::<LittleEndian>() on the 4 bytes b (two's complement).
LeI32(b) ==
    b[1] + 256 * b[2] + 65536 * b[3]
      + 16777216 * (IF b[4] >= 128 THEN b[4] - 256 ELSE b[4])

\* Mutant of LeI16: the first byte is the most significant.
LeI16_Big(b) == b[2] + 256 * (IF b[1] >= 128 THEN b[1] - 256 ELSE b[1])

\* reader.read_i16::<LittleEndian>() on the 2 bytes b.
LeI16(b) == b[1] + 256 * (IF b[2] >= 128 THEN b[2] - 256 ELSE b[2])

\* The little-endian bytes of an u32 below 2^31 (used to build inputs).
U32Bytes(n) ==
    << n % 256, (n \div 256) % 256, (n \div 65536) % 256, (n \div 16777216) % 256 >>

\* The little-endian bytes of an i32 (used to build inputs).
I32Bytes(n) ==
    IF n >= 0 THEN U32Bytes(n)
    ELSE LET m == n + 1 + U32Clamp   \* n + 2^31, in 0..2^31-1
         IN << m % 256, (m \div 256) % 256, (m \div 65536) % 256,
               ((m \div 16777216) % 256) + 128 >>

(***************************************************************************)
(* std::str::from_utf8 / String::from_utf8: whether b is well-formed UTF-8 *)
(***************************************************************************)
IsCont(x) == x >= 128 /\ x <= 191

RECURSIVE IsUtf8(_)
IsUtf8(b) ==
    IF b = <<>> THEN TRUE
    ELSE LET c == b[1]
             n == Len(b)
         IN IF c <= 127 THEN IsUtf8(Tail(b))
            ELSE IF c >= 194 /\ c <= 223
                 THEN n >= 2 /\ IsCont(b[2]) /\ IsUtf8(Drop(b, 2))
            ELSE IF c >= 224 /\ c <= 239
                 THEN /\ n >= 3
                      /\ IsCont(b[2])
                      /\ IsCont(b[3])
                      /\ (c = 224 => b[2] >= 160)
                      /\ (c = 237 => b[2] <= 159)
                      /\ IsUtf8(Drop(b, 3))
            ELSE IF c >= 240 /\ c <= 244
                 THEN /\ n >= 4
                      /\ IsCont(b[2])
                      /\ IsCont(b[3])
                      /\ IsCont(b[4])
                      /\ (c = 240 => b[2] >= 144)
                      /\ (c = 244 => b[2] <= 143)
                      /\ IsUtf8(Drop(b, 4))
            ELSE FALSE

(***************************************************************************)
(* ParseError (fbx.rs) and panics                                          *)
(***************************************************************************)
NoError            == [kind |-> "none", msg |-> ""]
IOError            == [kind |-> "IOError", msg |-> "unexpected end of stream"]
FormatError        == [kind |-> "FormatError", msg |-> ""]
ValidationError(m) == [kind |-> "ValidationError", msg |-> m]
Panic(m)           == [kind |-> "panic", msg |-> m]

Ok(p, v) == [ok |-> TRUE, pos |-> p, value |-> v]
Err(e)   == [ok |-> FALSE, err |-> e]

(***************************************************************************)
(* inflate::inflate_bytes_zlib (property.rs line 86): a zlib stream        *)
(* (RFC 1950) around DEFLATE blocks (RFC 1951).  Stored blocks and blocks  *)
(* with the fixed Huffman code are decoded; a block with a dynamic code is *)
(* reported as "dynamic" (no stream of this model holds one, see           *)
(* NoDynamicBlock).  A malformed stream is an error, and so is taken to be *)
(* one that ends before its last block or its checksum is complete.        *)
(***************************************************************************)
Pow2(n) == 2 ^ n

\* Bit i (0-based, least significant bit of each byte first) of z.
Bit(z, i) == (z[(i \div 8) + 1] \div Pow2(i % 8)) % 2

HasBits(z, i, n) == i + n <= 8 * Len(z)

\* n bits from bit i, the first read being the least significant.
RECURSIVE BitsLsb(_, _, _)
BitsLsb(z, i, n) == IF n = 0 THEN 0 ELSE Bit(z, i) + 2 * BitsLsb(z, i + 1, n - 1)

\* n bits from bit i, the first read being the most significant (Huffman codes).
RECURSIVE BitsMsb(_, _, _)
BitsMsb(z, i, n) ==
    IF n = 0 THEN 0 ELSE 2 * BitsMsb(z, i, n - 1) + Bit(z, i + n - 1)

LengthBase ==
    << 3, 4, 5, 6, 7, 8, 9, 10, 11, 13, 15, 17, 19, 23, 27, 31, 35, 43, 51, 59,
       67, 83, 99, 115, 131, 163, 195, 227, 258 >>
LengthExtra ==
    << 0, 0, 0, 0, 0, 0, 0, 0, 1, 1, 1, 1, 2, 2, 2, 2, 3, 3, 3, 3,
       4, 4, 4, 4, 5, 5, 5, 5, 0 >>
DistBase ==
    << 1, 2, 3, 4, 5, 7, 9, 13, 17, 25, 33, 49, 65, 97, 129, 193, 257, 385,
       513, 769, 1025, 1537, 2049, 3073, 4097, 6145, 8193, 12289, 16385, 24577 >>
DistExtra ==
    << 0, 0, 0, 0, 1, 1, 2, 2, 3, 3, 4, 4, 5, 5, 6, 6, 7, 7, 8, 8,
       9, 9, 10, 10, 11, 11, 12, 12, 13, 13 >>

\* One symbol of the fixed literal/length code at bit i: [ok, sym, next].
FixedSymbol(z, i) ==
    IF ~HasBits(z, i, 7) THEN [ok |-> FALSE]
    ELSE LET c7 == BitsMsb(z, i, 7)
         IN IF c7 <= 23 THEN [ok |-> TRUE, sym |-> 256 + c7, next |-> i + 7]
            ELSE IF ~HasBits(z, i, 8) THEN [ok |-> FALSE]
            ELSE LET c8 == BitsMsb(z, i, 8)
                 IN IF c8 <= 191
                    THEN [ok |-> TRUE, sym |-> c8 - 48, next |-> i + 8]
                    ELSE IF c8 <= 199
                    THEN [ok |-> TRUE, sym |-> 280 + (c8 - 192), next |-> i + 8]
                    ELSE IF ~HasBits(z, i, 9) THEN [ok |-> FALSE]
                    ELSE [ok |-> TRUE, sym |-> 144 + (BitsMsb(z, i, 9) - 400),
                          next |-> i + 9]

\* out extended by n bytes copied from d bytes back (the copy may overlap).
RECURSIVE CopyBack(_, _, _)
CopyBack(out, d, n) ==
    IF n = 0 THEN out ELSE CopyBack(Append(out, out[Len(out) - d + 1]), d, n - 1)

\* The symbols of one fixed-code block from bit i: [ok, out, next].
\* FixedStep is the step on symbol s, decoded at the current bit.
RECURSIVE FixedBlock(_, _, _), FixedStep(_, _, _)
FixedBlock(z, i, out) == FixedStep(z, out, FixedSymbol(z, i))

FixedStep(z, out, s) ==
    IF ~s.ok THEN [ok |-> FALSE]
    ELSE IF s.sym < 256 THEN FixedBlock(z, s.next, Append(out, s.sym))
    ELSE IF s.sym = 256 THEN [ok |-> TRUE, out |-> out, next |-> s.next]
    ELSE IF s.sym > 285 THEN [ok |-> FALSE]
    ELSE LET k  == s.sym - 256
             le == LengthExtra[k]
         IN IF ~HasBits(z, s.next, le + 5) THEN [ok |-> FALSE]
            ELSE LET len == LengthBase[k] + BitsLsb(z, s.next, le)
                     dc  == BitsMsb(z, s.next + le, 5)
                     j   == s.next + le + 5
                 IN IF dc > 29 \/ ~HasBits(z, j, DistExtra[dc + 1])
                    THEN [ok |-> FALSE]
                    ELSE LET de   == DistExtra[dc + 1]
                             dist == DistBase[dc + 1] + BitsLsb(z, j, de)
                         IN IF dist > Len(out) THEN [ok |-> FALSE]
                            ELSE FixedBlock(z, j + de, CopyBack(out, dist, len))

\* One stored block whose header ends at bit i: [ok, out, next].
StoredBlock(z, i, out) ==
    LET p == (i + 7) \div 8   \* the next byte boundary
    IN IF ~CanRead(z, p, 4) THEN [ok |-> FALSE]
       ELSE LET len  == z[p + 1] + 256 * z[p + 2]
                nlen == z[p + 3] + 256 * z[p + 4]
            IN IF len + nlen # 65535 \/ ~CanRead(z, p + 4, len)
               THEN [ok |-> FALSE]
               ELSE [ok |-> TRUE,
                     out |-> out \o Bytes(z, p + 4, len),
                     next |-> 8 * (p + 4 + len)]

\* The DEFLATE blocks from bit i: [ok, out, next] or [ok |-> FALSE, dynamic].
\* AfterBlock goes on from the result r of one block.
RECURSIVE InflateBlocks(_, _, _), AfterBlock(_, _, _)
InflateBlocks(z, i, out) ==
    IF ~HasBits(z, i, 3) THEN [ok |-> FALSE, dynamic |-> FALSE]
    ELSE LET btype == BitsLsb(z, i + 1, 2)
         IN IF btype = 0 THEN AfterBlock(z, Bit(z, i) = 1, StoredBlock(z, i + 3, out))
            ELSE IF btype = 1 THEN AfterBlock(z, Bit(z, i) = 1, FixedBlock(z, i + 3, out))
            ELSE [ok |-> FALSE, dynamic |-> btype = 2]

AfterBlock(z, final, r) ==
    IF ~r.ok THEN [ok |-> FALSE, dynamic |-> FALSE]
    ELSE IF final THEN r
    ELSE InflateBlocks(z, r.next, r.out)

\* The Adler-32 sums <<a, b>> of bytes s, from sums <<a0, b0>>.
RECURSIVE Adler(_, _, _)
Adler(s, a0, b0) ==
    IF s = <<>> THEN <<a0, b0>>
    ELSE LET a == (a0 + s[1]) % 65521
         IN Adler(Tail(s), a, (b0 + a) % 65521)

\* The 4 bytes of the Adler-32 checksum of s, most significant first.
AdlerBytes(s) ==
    LET ab == Adler(s, 1, 0)
    IN << ab[2] \div 256, ab[2] % 256, ab[1] \div 256, ab[1] % 256 >>

\* The Adler-32 check after the blocks, whose result is r.
AfterBlocks(z, r) ==
    IF ~r.ok THEN r
    ELSE LET p == (r.next + 7) \div 8
         IN IF CanRead(z, p, 4) /\ Bytes(z, p, 4) = AdlerBytes(r.out)
            THEN [ok |-> TRUE, out |-> r.out]
            ELSE [ok |-> FALSE, dynamic |-> FALSE]

\* inflate_bytes_zlib(z): [ok |-> TRUE, out] or [ok |-> FALSE, dynamic].
Inflate(z) ==
    IF \/ Len(z) < 2
       \/ z[1] % 16 # 8
       \/ z[1] \div 16 > 7
       \/ (256 * z[1] + z[2]) % 31 # 0
       \/ (z[2] \div 32) % 2 = 1
    THEN [ok |-> FALSE, dynamic |-> FALSE]
    ELSE AfterBlocks(z, InflateBlocks(z, 16, <<>>))

\* A zlib stream of s in one stored block (used to build inputs).
ZlibStored(s) ==
    << 120, 1, 1, Len(s) % 256, Len(s) \div 256,
       255 - (Len(s) % 256), 255 - (Len(s) \div 256) >> \o s \o AdlerBytes(s)

\* The bits of n as a code of w bits, most significant first.
RECURSIVE CodeBits(_, _)
CodeBits(n, w) == IF w = 0 THEN <<>> ELSE Append(CodeBits(n \div 2, w - 1), n % 2)

RECURSIVE LiteralBits(_)
LiteralBits(s) ==
    IF s = <<>> THEN <<>>
    ELSE (IF s[1] < 144 THEN CodeBits(48 + s[1], 8) ELSE CodeBits(256 + s[1], 9))
         \o LiteralBits(Tail(s))

\* The bytes of a bit sequence, the first bit the least significant of byte 1.
PackBits(bits) ==
    [k \in 1..((Len(bits) + 7) \div 8) |->
        LET B(j) == IF 8 * (k - 1) + j <= Len(bits) THEN bits[8 * (k - 1) + j] ELSE 0
        IN B(1) + 2 * B(2) + 4 * B(3) + 8 * B(4) + 16 * B(5) + 32 * B(6)
             + 64 * B(7) + 128 * B(8)]

\* A zlib stream of s in one fixed-code block of literals (used to build inputs).
ZlibFixed(s) ==
    << 120, 156 >> \o PackBits(<<1, 1, 0>> \o LiteralBits(s) \o CodeBits(0, 7))
       \o AdlerBytes(s)

(***************************************************************************)
(* property.rs: the property decoders.  Each takes the stream d and the    *)
(* position p after the type code and returns Ok(position, value) or       *)
(* Err(error).  A PropertyRecordType is [type, value].                     *)
(***************************************************************************)
Prop(t, v) == [type |-> t, value |-> v]

\* A fixed-width scalar: read w bytes, value conv(bytes).
ReadScalar(d, p, w, t, conv(_)) ==
    IF ~CanRead(d, p, w) THEN Err(IOError)
    ELSE Ok(p + w, Prop(t, conv(Bytes(d, p, w))))

Same(b)    == b

\* Mutant of IsOne: every byte but 0 is true.
IsOne_NonZero(b) == b[1] # 0

\* read_u8()? == 1
IsOne(b)   == b[1] = 1

parse_i16_property(d, p)  == ReadScalar(d, p, 2, "SignedInt16", LeI16)
parse_i32_property(d, p)  == ReadScalar(d, p, 4, "SignedInt32", LeI32)
parse_i64_property(d, p)  == ReadScalar(d, p, 8, "SignedInt64", Same)
parse_f32_property(d, p)  == ReadScalar(d, p, 4, "Float", Same)
parse_f64_property(d, p)  == ReadScalar(d, p, 8, "Double", Same)
parse_bool_property(d, p) == ReadScalar(d, p, 1, "Boolean", IsOne)

\* parse_array_metadata: three u32.
parse_array_metadata(d, p) ==
    IF ~CanRead(d, p, 12) THEN Err(IOError)
    ELSE Ok(p + 12, [length            |-> LeU32(Bytes(d, p, 4)),
                     encoding          |-> LeU32(Bytes(d, p + 4, 4)),
                     compressed_length |-> LeU32(Bytes(d, p + 8, 4))])

\* byte_count = size_of::<T>() * metadata.length bytes can be read at q.
\* (Stated by division: the product of a clamped length is not formed.)
RawFits(d, q, size, length) == length <= (Len(d) - q) \div size

\* property.rs lines 86-87: the cursor over the inflated data z, or the panic
\* of unwrap().
Inflated(q, z) ==
    IF z.ok THEN Ok(q, z.out)
    ELSE IF z.dynamic THEN Err(Panic("dynamic block"))
    ELSE Err(Panic("inflate_bytes_zlib failed"))

\* No stream of the model holds a block with a dynamic code.
NoDynamicBlock == err # Panic("dynamic block")

\* Mutant of RawByteCursor: of the inflated data, only the bytes of
\* metadata.length elements are kept.
RawByteCursor_Declared(d, m, size) ==
    IF ~m.ok THEN m
    ELSE IF m.value.encoding = 0
    THEN IF ~RawFits(d, m.pos, size, m.value.length) THEN Err(IOError)
         ELSE Ok(m.pos + size * m.value.length,
                 Bytes(d, m.pos, size * m.value.length))
    ELSE IF ~CanRead(d, m.pos, m.value.compressed_length) THEN Err(IOError)
         ELSE IF ~Inflate(Bytes(d, m.pos, m.value.compressed_length)).ok
         THEN Err(Panic("inflate_bytes_zlib failed"))
         ELSE Ok(m.pos + m.value.compressed_length,
                 LET out == Inflate(Bytes(d, m.pos, m.value.compressed_length)).out
                 IN IF size * m.value.length < Len(out)
                    THEN Take(out, size * m.value.length) ELSE out)

\* Mutant of RawByteCursor: the compressed bytes are taken as they are.
RawByteCursor_NoInflate(d, m, size) ==
    IF ~m.ok THEN m
    ELSE IF m.value.encoding = 0
    THEN IF ~RawFits(d, m.pos, size, m.value.length) THEN Err(IOError)
         ELSE Ok(m.pos + size * m.value.length,
                 Bytes(d, m.pos, size * m.value.length))
    ELSE IF ~CanRead(d, m.pos, m.value.compressed_length) THEN Err(IOError)
         ELSE Ok(m.pos + m.value.compressed_length,
                 Bytes(d, m.pos, m.value.compressed_length))

\* property.rs lines 78-88, with the metadata m read: the value is the content
\* of the cursor.
RawByteCursor(d, m, size) ==
    IF ~m.ok THEN m
    ELSE IF m.value.encoding = 0
    THEN IF ~RawFits(d, m.pos, size, m.value.length) THEN Err(IOError)
         ELSE Ok(m.pos + size * m.value.length,
                 Bytes(d, m.pos, size * m.value.length))
    ELSE IF ~CanRead(d, m.pos, m.value.compressed_length) THEN Err(IOError)
         ELSE Inflated(m.pos + m.value.compressed_length,
                       Inflate(Bytes(d, m.pos, m.value.compressed_length)))

\* get_property_raw_byte_cursor::<T>, size = size_of::<T>().
get_property_raw_byte_cursor(d, p, size) ==
    RawByteCursor(d, parse_array_metadata(d, p), size)

\* apply_transform_on_byte_stream::<T>: stream_len / size_of::<T>() elements,
\* each the transform of the next size bytes of the cursor.
apply_transform_on_byte_stream(input, size, transform(_)) ==
    LET elements == Len(input) \div size
    IN [k \in 1..elements |-> transform(Bytes(input, size * (k - 1), size))]

\* The array property of type t decoded from the cursor c.
ArrayFrom(c, size, t, transform(_)) ==
    IF ~c.ok THEN c
    ELSE Ok(c.pos, Prop(t, apply_transform_on_byte_stream(c.value, size, transform)))

ParseArray(d, p, size, t, transform(_)) ==
    ArrayFrom(get_property_raw_byte_cursor(d, p, size), size, t, transform)

parse_f32_array_property(d, p)  == ParseArray(d, p, 4, "FloatArray", Same)
parse_f64_array_property(d, p)  == ParseArray(d, p, 8, "DoubleArray", Same)
parse_i64_array_property(d, p)  == ParseArray(d, p, 8, "SignedInt64Array", Same)
parse_i32_array_property(d, p)  == ParseArray(d, p, 4, "SignedInt32Array", LeI32)
parse_bool_array_property(d, p) == ParseArray(d, p, 1, "BooleanArray", IsOne)

\* Mutant of FirstNul: no NUL is looked for.
FirstNul_None(b, k) == Len(b) + 1

\* property.rs line 158: the index of the first 0 of b from k on, or Len(b) + 1.
RECURSIVE FirstNul(_, _)
FirstNul(b, k) == IF k > Len(b) \/ b[k] = 0 THEN k ELSE FirstNul(b, k + 1)

\* parse_string_property: the value is the bytes of the String.
parse_string_property(d, p) ==
    IF ~CanRead(d, p, 4) THEN Err(IOError)
    ELSE LET length == LeU32(Bytes(d, p, 4))
         IN IF ~CanRead(d, p + 4, length) THEN Err(IOError)
            ELSE LET bytes == Bytes(d, p + 4, length)
                     actual_string_length == FirstNul(bytes, 1) - 1
                     null_terminated_data == Take(bytes, actual_string_length)
                 IN IF ~IsUtf8(null_terminated_data)
                    THEN Err(Panic("String::from_utf8 failed"))
                    ELSE Ok(p + 4 + length, Prop("String", null_terminated_data))

parse_binary_data_property(d, p) ==
    IF ~CanRead(d, p, 4) THEN Err(IOError)
    ELSE LET length == LeU32(Bytes(d, p, 4))
         IN IF ~CanRead(d, p + 4, length) THEN Err(IOError)
            ELSE Ok(p + 4 + length, Prop("BinaryData", Bytes(d, p + 4, length)))

\* The type codes, as bytes.
TagY == 89
TagC == 67
TagI == 73
TagF == 70
TagD == 68
TagL == 76
Tagf == 102
Tagd == 100
Tagl == 108
Tagi == 105
Tagb == 98
TagS == 83
TagR == 82

\* Mutant of parse_property: an unknown type code yields a property without
\* data.
parse_property_SkipUnknown(d, p) ==
    IF ~CanRead(d, p, 1) THEN Err(IOError)
    ELSE LET type_code == d[p + 1]
             q == p + 1
         IN CASE type_code = TagY -> parse_i16_property(d, q)
              [] type_code = TagC -> parse_bool_property(d, q)
              [] type_code = TagI -> parse_i32_property(d, q)
              [] type_code = TagF -> parse_f32_property(d, q)
              [] type_code = TagD -> parse_f64_property(d, q)
              [] type_code = TagL -> parse_i64_property(d, q)
              [] type_code = Tagf -> parse_f32_array_property(d, q)
              [] type_code = Tagd -> parse_f64_array_property(d, q)
              [] type_code = Tagl -> parse_i64_array_property(d, q)
              [] type_code = Tagi -> parse_i32_array_property(d, q)
              [] type_code = Tagb -> parse_bool_array_property(d, q)
              [] type_code = TagS -> parse_string_property(d, q)
              [] type_code = TagR -> parse_binary_data_property(d, q)
              [] OTHER -> Ok(q, Prop("Unknown", <<>>))

\* parse_property: one type code byte, then the decoder it selects.
parse_property(d, p) ==
    IF ~CanRead(d, p, 1) THEN Err(IOError)
    ELSE LET type_code == d[p + 1]
             q == p + 1
         IN CASE type_code = TagY -> parse_i16_property(d, q)
              [] type_code = TagC -> parse_bool_property(d, q)
              [] type_code = TagI -> parse_i32_property(d, q)
              [] type_code = TagF -> parse_f32_property(d, q)
              [] type_code = TagD -> parse_f64_property(d, q)
              [] type_code = TagL -> parse_i64_property(d, q)
              [] type_code = Tagf -> parse_f32_array_property(d, q)
              [] type_code = Tagd -> parse_f64_array_property(d, q)
              [] type_code = Tagl -> parse_i64_array_property(d, q)
              [] type_code = Tagi -> parse_i32_array_property(d, q)
              [] type_code = Tagb -> parse_bool_array_property(d, q)
              [] type_code = TagS -> parse_string_property(d, q)
              [] type_code = TagR -> parse_binary_data_property(d, q)
              [] OTHER -> Err(Panic("Unexpected type_code"))

(***************************************************************************)
(* header.rs: parse_header                                                 *)
(***************************************************************************)
\* "Kaydara FBX Binary  \0"
Magic ==
    << 75, 97, 121, 100, 97, 114, 97, 32, 70, 66, 88, 32,
       66, 105, 110, 97, 114, 121, 32, 32, 0 >>

MagicLength == Len(Magic)

\* Mutant of parse_header: the last byte of the magic string is not compared.
parse_header_NoNul(d) ==
    IF ~CanRead(d, 0, MagicLength) THEN Err(IOError)
    ELSE LET magic_string_bytes == Bytes(d, 0, MagicLength)
         IN IF ~IsUtf8(magic_string_bytes) THEN Err(FormatError)
            ELSE IF Front(magic_string_bytes) # Front(Magic)
            THEN Err(ValidationError("file header magic string is incorrect"))
            ELSE IF ~CanRead(d, MagicLength + 2, 4) THEN Err(IOError)
            ELSE Ok(MagicLength + 2 + 4, LeU32(Bytes(d, MagicLength + 2, 4)))

\* parse_header on stream d at position 0: Ok(position, version) or Err.
parse_header(d) ==
    IF ~CanRead(d, 0, MagicLength) THEN Err(IOError)
    ELSE LET magic_string_bytes == Bytes(d, 0, MagicLength)
         IN IF ~IsUtf8(magic_string_bytes) THEN Err(FormatError)
            ELSE IF magic_string_bytes # Magic
            THEN Err(ValidationError("file header magic string is incorrect"))
            ELSE IF ~CanRead(d, MagicLength + 2, 4) THEN Err(IOError)
            ELSE Ok(MagicLength + 2 + 4, LeU32(Bytes(d, MagicLength + 2, 4)))

(***************************************************************************)
(* node.rs: parse_node and parse_nodes.                                    *)
(*                                                                         *)
(* pc is the place of the innermost call:                                  *)
(*   "header"       parse_fbx is about to call parse_header                *)
(*   "nodes_loop"   parse_nodes tests its loop condition (line 88)         *)
(*   "node_start"   parse_node has been entered (line 23)                  *)
(*   "node_header"  end_offset accepted (line 33)                          *)
(*   "props"        inside parse_properties (line 41)                      *)
(*   "props_check"  parse_properties returned (line 43)                    *)
(*   "children"     line 47                                                *)
(*   "child_loop"   the loop condition of line 55                          *)
(*   "sentinel"     line 62                                                *)
(*   "end_check"    line 71                                                *)
(*   "node_ok"      line 75: parse_node returns Ok(Some(record))           *)
(*   "done"         parse_nodes returned Ok(result)                        *)
(*   "error"        an Err(ParseError) reached parse_fbx; "panic" a panic  *)
(* A frame of stack holds the locals of one parse_node call past line 31.  *)
(* After an error or a panic nothing is read any more: every variable      *)
(* keeps the value it had where the failure happened.                      *)
(***************************************************************************)
sentinel_block_length == 4 * 3 + 1

file_length == Len(data)

Top == stack[Len(stack)]

NodeRecord(n, ps, cs) == [name |-> n, properties |-> ps, nested_list |-> cs]

\* Mutant of Fail: parse_nodes returns the records decoded before the failure.
Fail_ReturnPartial(e) ==
    /\ pc' = "done"
    /\ err' = e
    /\ stack' = <<>>
    /\ UNCHANGED <<data, pos, result, version>>

\* An Err(e) propagated by `?` up to parse_fbx, or a panic.
Fail(e) ==
    /\ pc' = IF e.kind = "panic" THEN "panic" ELSE "error"
    /\ err' = e
    /\ UNCHANGED <<data, pos, stack, result, version>>

\* parse_fbx with the result h of parse_header: unwrap, then parse_nodes.
HeaderParsed(h) ==
    IF h.ok
    THEN /\ version' = h.value
         /\ pos' = h.pos
         /\ pc' = "nodes_loop"
         /\ UNCHANGED <<data, stack, result, err>>
    ELSE Fail(h.err)

\* fbx.rs lines 52-53: parse_fbx calls parse_header, then parse_nodes.
ParseHeader ==
    /\ pc = "header"
    /\ HeaderParsed(parse_header(data))
    /\ UNCHANGED <<importVars, faceVars, fbxVars, triVars>>

\* node.rs line 88: the loop condition of parse_nodes; line 95 when it is false.
NodesLoop ==
    /\ pc = "nodes_loop"
    /\ pc' = IF pos < file_length THEN "node_start" ELSE "done"
    /\ UNCHANGED <<data, pos, stack, result, err, version, importVars, faceVars, fbxVars, triVars>>

\* Mutant of AfterNone: parse_nodes goes on after Ok(None).
AfterNone_Continue == IF stack = <<>> THEN "nodes_loop" ELSE "child_loop"

\* Mutant of AfterNone: Ok(None) ends the child loop as well.
AfterNone_Break == IF stack = <<>> THEN "done" ELSE "sentinel"

\* What the caller does with Ok(None): parse_nodes breaks (line 91), the child
\* loop of the enclosing parse_node goes on (lines 56-59).
AfterNone == IF stack = <<>> THEN "done" ELSE "child_loop"

\* Mutant of EndOffsetOutOfBounds: > for >=.
EndOffsetOutOfBounds_Gt(end_offset) == end_offset > file_length

\* node.rs line 29.
EndOffsetOutOfBounds(end_offset) == end_offset >= file_length

\* Mutant of AfterU32: the read does not move the position.
AfterU32_Stay(p) == p

\* node.rs line 23: read_u32 leaves the position 4 bytes further on.
AfterU32(p) == p + 4

\* node.rs lines 23-31: read end_offset; the terminator; the bounds check.
NodeStart ==
    /\ pc = "node_start"
    /\ IF ~CanRead(data, pos, 4) THEN Fail(IOError)
       ELSE LET end_offset == LeU32(Bytes(data, pos, 4))
            IN IF end_offset = 0
               THEN /\ pos' = AfterU32(pos)
                    /\ pc' = AfterNone
                    /\ UNCHANGED <<data, stack, result, err, version>>
               ELSE IF EndOffsetOutOfBounds(end_offset)
               THEN /\ pos' = AfterU32(pos)
                    /\ pc' = "error"
                    /\ err' = ValidationError("end offset is outside bounds")
                    /\ UNCHANGED <<data, stack, result, version>>
               ELSE /\ pos' = AfterU32(pos)
                    /\ stack' = Append(stack, [end_offset |-> end_offset,
                                               num_properties |-> 0,
                                               property_length_bytes |-> 0,
                                               name |-> <<>>,
                                               property_start_offset |-> 0,
                                               properties |-> <<>>,
                                               child_nodes |-> <<>>])
                    /\ pc' = "node_header"
                    /\ UNCHANGED <<data, result, err, version>>
    /\ UNCHANGED <<importVars, faceVars, fbxVars, triVars>>

\* node.rs lines 12-18: parse_string at position p: Ok(position, bytes) or Err.
parse_string(d, p) ==
    IF ~CanRead(d, p, 1) THEN Err(IOError)
    ELSE LET length == d[p + 1]
         IN IF ~CanRead(d, p + 1, length) THEN Err(IOError)
            ELSE IF ~IsUtf8(Bytes(d, p + 1, length)) THEN Err(FormatError)
            ELSE Ok(p + 1 + length, Bytes(d, p + 1, length))

\* node.rs line 38: property_start_offset + property_length_bytes > file_length,
\* stated without forming the sum of a clamped length.
PropertyLengthOutOfBounds(property_start_offset, property_length_bytes) ==
    property_length_bytes > file_length - property_start_offset

\* node.rs lines 35-40, with the two counts read and the result of parse_string.
HeaderRead(num_properties, property_length_bytes, name) ==
    IF ~name.ok THEN Fail(name.err)
    ELSE IF PropertyLengthOutOfBounds(name.pos, property_length_bytes)
    THEN /\ pos' = name.pos
         /\ pc' = "error"
         /\ err' = ValidationError("property length out of bounds")
         /\ UNCHANGED <<data, stack, result, version>>
    ELSE /\ pos' = name.pos
         /\ stack' = [stack EXCEPT ![Len(stack)] =
                        [@ EXCEPT !.num_properties = num_properties,
                                  !.property_length_bytes = property_length_bytes,
                                  !.name = name.value,
                                  !.property_start_offset = name.pos]]
         /\ pc' = "props"
         /\ UNCHANGED <<data, result, err, version>>

\* node.rs lines 33-40: the rest of the node header.
NodeHeader ==
    /\ pc = "node_header"
    /\ IF ~CanRead(data, pos, 8) THEN Fail(IOError)
       ELSE HeaderRead(LeU32(Bytes(data, pos, 4)), LeU32(Bytes(data, pos + 4, 4)),
                       parse_string(data, pos + 8))
    /\ UNCHANGED <<importVars, faceVars, fbxVars, triVars>>

\* property.rs lines 198-199: `?` on the result of parse_property, then push.
PropertyParsed(property) ==
    IF ~property.ok THEN Fail(property.err)
    ELSE /\ pos' = property.pos
         /\ stack' = [stack EXCEPT ![Len(stack)].properties =
                                      Append(@, property.value)]
         /\ UNCHANGED <<data, pc, result, err, version>>

\* property.rs lines 197-202: one iteration of parse_properties' loop, or its
\* return when num_properties properties have been decoded.
ParseProperties ==
    /\ pc = "props"
    /\ IF Len(Top.properties) < Top.num_properties
       THEN PropertyParsed(parse_property(data, pos))
       ELSE /\ pc' = "props_check"
            /\ UNCHANGED <<data, pos, stack, result, err, version>>
    /\ UNCHANGED <<importVars, faceVars, fbxVars, triVars>>

\* Mutant of PropertyLengthMismatch: only a shortfall is detected.
PropertyLengthMismatch_Short(f, p) == f.property_length_bytes > p - f.property_start_offset

\* node.rs line 43: the bytes the properties took are not the declared length.
PropertyLengthMismatch(f, p) == f.property_length_bytes # p - f.property_start_offset

\* node.rs lines 43-45.
CheckPropertyLength ==
    /\ pc = "props_check"
    /\ IF PropertyLengthMismatch(Top, pos)
       THEN Fail(ValidationError("did not read correct amount of bytes when parsing properties"))
       ELSE /\ pc' = "children"
            /\ UNCHANGED <<data, pos, stack, result, err, version>>
    /\ UNCHANGED <<importVars, faceVars, fbxVars, triVars>>

\* node.rs lines 47-53: is there anything between the properties and end_offset?
Children ==
    /\ pc = "children"
    /\ IF pos < Top.end_offset
       THEN LET remaining_byte_count == Top.end_offset - pos
            IN IF remaining_byte_count < sentinel_block_length
               THEN Fail(ValidationError("insufficient amount of bytes at end of node"))
               ELSE /\ pc' = "child_loop"
                    /\ UNCHANGED <<data, pos, stack, result, err, version>>
       ELSE /\ pc' = "end_check"
            /\ UNCHANGED <<data, pos, stack, result, err, version>>
    /\ UNCHANGED <<importVars, faceVars, fbxVars, triVars>>

\* node.rs line 55: the loop condition; line 56 calls parse_node.
ChildLoop ==
    /\ pc = "child_loop"
    /\ pc' = IF pos < Top.end_offset - sentinel_block_length
             THEN "node_start" ELSE "sentinel"
    /\ UNCHANGED <<data, pos, stack, result, err, version, importVars, faceVars, fbxVars, triVars>>

\* Mutant of SentinelNonZero: the loop stops one byte early.
SentinelNonZero_OneShort(sentinel_block) ==
    \E i \in 1..(sentinel_block_length - 1) : sentinel_block[i] # 0

\* node.rs lines 64-68: some byte of the sentinel block is not zero.
SentinelNonZero(sentinel_block) ==
    \E i \in 1..sentinel_block_length : sentinel_block[i] # 0

\* node.rs lines 62-68.
Sentinel ==
    /\ pc = "sentinel"
    /\ IF ~CanRead(data, pos, sentinel_block_length) THEN Fail(IOError)
       ELSE IF SentinelNonZero(Bytes(data, pos, sentinel_block_length))
       THEN /\ pos' = pos + sentinel_block_length
            /\ pc' = "error"
            /\ err' = ValidationError("sentinel block contains non-zero values")
            /\ UNCHANGED <<data, stack, result, version>>
       ELSE /\ pos' = pos + sentinel_block_length
            /\ pc' = "end_check"
            /\ UNCHANGED <<data, stack, result, err, version>>
    /\ UNCHANGED <<importVars, faceVars, fbxVars, triVars>>

\* Mutant of EndOffsetMissed: the position is never compared.
EndOffsetMissed_Never(f, p) == FALSE

\* Mutant of EndOffsetMissed: only stopping short of end_offset is detected.
EndOffsetMissed_Short(f, p) == p < f.end_offset

\* node.rs line 71: the position is not the declared end offset.
EndOffsetMissed(f, p) == p # f.end_offset

\* node.rs lines 71-73.
EndCheck ==
    /\ pc = "end_check"
    /\ IF EndOffsetMissed(Top, pos)
       THEN Fail(ValidationError("end offset not reached."))
       ELSE /\ pc' = "node_ok"
            /\ UNCHANGED <<data, pos, stack, result, err, version>>
    /\ UNCHANGED <<importVars, faceVars, fbxVars, triVars>>

\* node.rs lines 75-79: Ok(Some(record)) goes to the caller, which pushes it:
\* parse_nodes on result (line 90), parse_node on child_nodes (lines 57-59).
NodeReturn ==
    /\ pc = "node_ok"
    /\ LET node == NodeRecord(Top.name, Top.properties, Top.child_nodes)
           rest == Front(stack)
       IN IF rest = <<>>
          THEN /\ result' = Append(result, node)
               /\ stack' = rest
               /\ pc' = "nodes_loop"
          ELSE /\ stack' = [rest EXCEPT ![Len(rest)].child_nodes = Append(@, node)]
               /\ pc' = "child_loop"
               /\ UNCHANGED result
    /\ UNCHANGED <<data, pos, err, version, importVars, faceVars, fbxVars, triVars>>

(***************************************************************************)
(* The streams decoding starts from.  A well-formed file is laid out as    *)
(* spec.md section 6 describes it; the files of the model are the          *)
(* well-formed files of a few trees, each of them with one byte changed,   *)
(* and each of their proper prefixes.                                      *)
(***************************************************************************)
\* The deepest nesting of the trees the files are built from.
MaxDepth == 2

\* An input node: name and properties as bytes, child nodes, whether it has a
\* nested-list block (children, padding, sentinel), and zero bytes of padding
\* before the sentinel.
InNode(n, ps, cs, pad) ==
    [name |-> n, props |-> ps, children |-> cs, pad |-> pad, lead |-> 0]

\* An input node with lead zero bytes before its child records.
LeadNode(n, ps, cs, lead) == [InNode(n, ps, cs, 0) EXCEPT !.lead = lead]

HasBlock(n) == n.children # <<>> \/ n.pad > 0 \/ n.lead > 0

RECURSIVE EncNode(_, _), EncNodes(_, _)
\* The bytes of node n laid out at offset start.
EncNode(n, start) ==
    LET propBytes == Concat(n.props)
        childStart == start + 13 + Len(n.name) + Len(propBytes)
        block == IF HasBlock(n)
                 THEN Zeros(n.lead) \o EncNodes(n.children, childStart + n.lead)
                        \o Zeros(n.pad)
                        \o Zeros(sentinel_block_length)
                 ELSE <<>>
    IN U32Bytes(childStart + Len(block)) \o U32Bytes(Len(n.props))
         \o U32Bytes(Len(propBytes)) \o <<Len(n.name)>> \o n.name
         \o propBytes \o block

\* The bytes of the nodes ns laid out one after the other from offset start.
EncNodes(ns, start) ==
    IF ns = <<>> THEN <<>>
    ELSE LET first == EncNode(ns[1], start)
         IN first \o EncNodes(Tail(ns), start + Len(first))

\* Encoded properties.
PropY == << TagY, 1, 2 >>
PropC == << TagC, 1 >>
PropD == << TagD, 0, 0, 0, 0, 0, 0, 240, 63 >>
\* 'S', "Model\0\0Mesh"
PropS == << TagS >> \o U32Bytes(11)
           \o << 77, 111, 100, 101, 108, 0, 0, 77, 101, 115, 104 >>
PropR == << TagR >> \o U32Bytes(2) \o << 7, 0 >>
\* 'i', raw, [0, -3]
PropI32Raw == << Tagi >> \o U32Bytes(2) \o U32Bytes(0) \o U32Bytes(0)
                \o I32Bytes(0) \o I32Bytes(-3)
\* 'i', zlib, [2]
PropI32Zlib == << Tagi >> \o U32Bytes(1) \o U32Bytes(1)
                 \o U32Bytes(Len(ZlibStored(I32Bytes(2)))) \o ZlibStored(I32Bytes(2))
\* 'b', raw, [true, false]
PropBoolRaw == << Tagb >> \o U32Bytes(2) \o U32Bytes(0) \o U32Bytes(0) \o << 1, 0 >>

\* The properties of the node at nesting level k.
LevelProps(k) ==
    CASE k % 3 = 0 -> << PropY, PropS >>
      [] k % 3 = 1 -> << PropI32Raw, PropC >>
      [] OTHER     -> << PropI32Zlib, PropBoolRaw, PropD >>

Leaf(c) == InNode(<<c>>, IF c = 65 THEN << PropY, PropS >> ELSE << PropR >>, <<>>, 0)

\* A tree nested k deep: at each level a leaf, then the next level.
RECURSIVE Chain(_)
Chain(k) ==
    IF k = 0 THEN InNode(<<67>>, << PropC >>, <<>>, 0)
    ELSE InNode(<<78, 48 + k>>, LevelProps(k), << Leaf(65), Chain(k - 1) >>,
                IF k = 1 THEN 0 ELSE 4)

\* "Kaydara FBX Binary  \0", two bytes, version 7400.
HeaderBytes == Magic \o << 26, 0 >> \o U32Bytes(7400)

\* The well-formed file of depth k: the chain, a leaf, the terminator record.
WellFormed(k) ==
    HeaderBytes \o EncNodes(<< Chain(k), Leaf(66) >>, Len(HeaderBytes))
      \o Zeros(sentinel_block_length)

\* A file whose first node has a zero end_offset before its two child records.
TerminatorFirst ==
    << LeadNode(<< 84 >>, << PropC >>,
                << Leaf(65), InNode(<< 67 >>, << PropY >>, <<>>, 0) >>, 4),
       Leaf(66) >>

TerminatorFirstFile ==
    HeaderBytes \o EncNodes(TerminatorFirst, Len(HeaderBytes))
      \o Zeros(sentinel_block_length)

\* The trees of a well-formed file.
TreesOf(f) ==
    IF f = TerminatorFirstFile THEN TerminatorFirst
    ELSE << Chain(CHOOSE k \in 0..MaxDepth : f = WellFormed(k)), Leaf(66) >>

WellFormedFiles == { WellFormed(k) : k \in 0..MaxDepth } \cup { TerminatorFirstFile }

\* The values a changed byte takes, given the value it had.
Changed(old) == { 0, 255, (old + 1) % 256, (old + 255) % 256 } \ { old }

\* f with one byte changed.
OneByteChanged(f) ==
    UNION { { [f EXCEPT ![k] = v] : v \in Changed(f[k]) } : k \in 1..Len(f) }

\* The proper prefixes of f.
Truncated(f) == { Take(f, n) : n \in 0..(Len(f) - 1) }

\* "kaydara fbx BINARY  \0"
WrongCaseMagic ==
    << 107, 97, 121, 100, 97, 114, 97, 32, 102, 98, 120, 32,
       66, 73, 78, 65, 82, 89, 32, 32, 0 >>

IsLetter(x) == (x >= 65 /\ x <= 90) \/ (x >= 97 /\ x <= 122)
OtherCase(x) == IF x <= 90 THEN x + 32 ELSE x - 32

\* f with the case of the magic string changed: in one letter, or as in the
\* test magic_string_should_fail_on_wrong_case.
CaseChanged(f) ==
    { [f EXCEPT ![k] = OtherCase(f[k])] : k \in { j \in 1..MagicLength : IsLetter(f[j]) } }
    \cup { WrongCaseMagic \o Drop(f, MagicLength) }

Files ==
    UNION { {f} \cup OneByteChanged(f) \cup Truncated(f) \cup CaseChanged(f) :
              f \in WellFormedFiles }

(***************************************************************************)
(* node_collection.rs: a NodeCollection is the sequence of its nodes in    *)
(* the order they were inserted; the MultiMap keeps, per name, the nodes   *)
(* of that name in that order.  A node of the importer is                  *)
(* [name, properties, children], children a NodeCollection.                *)
(***************************************************************************)
Node(n, ps, cs) == [name |-> n, properties |-> ps, children |-> cs]

None == [some |-> FALSE]
Some(v) == [some |-> TRUE, value |-> v]

\* Result<_, node_collection::Error>
NoSuchNode == [kind |-> "NoSuchNode"]
MultipleValuesExist == [kind |-> "MultipleValuesExist"]
Found(v) == [ok |-> TRUE, value |-> v]

\* MultiMap::get_vec: the nodes named name, in insertion order.
get_vec(c, name) == SelectSeq(c, LAMBDA n : n.name = name)

\* Mutant of FirstOf: several nodes of the name are an error.
FirstOf_Single(v) ==
    IF v = <<>> THEN Err(NoSuchNode)
    ELSE IF Len(v) > 1 THEN Err(MultipleValuesExist)
    ELSE Found(v[1])

\* The first node of a non-empty vector, or NoSuchNode.
FirstOf(v) == IF v = <<>> THEN Err(NoSuchNode) ELSE Found(v[1])

NodeCollection_new == <<>>
NodeCollection_insert(c, node) == Append(c, node)
NodeCollection_get(c, name) == FirstOf(get_vec(c, name))

\* None when no node has the name.
SomeUnlessEmpty(v) == IF v = <<>> THEN None ELSE Some(v)
NodeCollection_get_multiple(c, name) == SomeUnlessEmpty(get_vec(c, name))

(***************************************************************************)
(* importer.rs: FaceIterator, tuples3, get_faces, import                   *)
(***************************************************************************)
\* a ^ b on two's-complement integers.
RECURSIVE BitXor(_, _)
BitXor(a, b) ==
    IF a \in { 0, -1 } /\ b \in { 0, -1 }
    THEN (IF a = b THEN 0 ELSE -1)
    ELSE 2 * BitXor(a \div 2, b \div 2) + (IF a % 2 = b % 2 THEN 0 ELSE 1)

\* Mutant of LastIndex: the value is negated (wrapping, as i32).
LastIndex_Negate(index) == IF index = -2147483647 - 1 THEN index ELSE 0 - index

\* importer.rs line 36: *index ^ -1.
LastIndex(index) == BitXor(index, -1)

Face(indices_) == [indices |-> indices_]

\* importer.rs lines 34-41: the while loop of next(), from position i of the
\* underlying iterator over ix, with acc accumulated: the indices of the face
\* and the position the iterator is left at.
RECURSIVE TakeFace(_, _, _)
TakeFace(ix, i, acc) ==
    IF i >= Len(ix) THEN [indices |-> acc, iter |-> i]
    ELSE IF ix[i + 1] < 0
    THEN [indices |-> Append(acc, LastIndex(ix[i + 1])), iter |-> i + 1]
    ELSE TakeFace(ix, i + 1, Append(acc, ix[i + 1]))

FaceOf_DropFirst(r) ==
    IF r.indices = <<>> THEN [some |-> FALSE, iter |-> r.iter]
    ELSE [some |-> TRUE, value |-> Face(Tail(r.indices)), iter |-> r.iter]

\* importer.rs lines 43-47.
FaceOf(r) ==
    IF r.indices = <<>> THEN [some |-> FALSE, iter |-> r.iter]
    ELSE [some |-> TRUE, value |-> Face(r.indices), iter |-> r.iter]

\* FaceIterator::next with the underlying iterator at position i of ix.
FaceIterator_next(ix, i) == FaceOf(TakeFace(ix, i, <<>>))

\* importer.rs lines 95-98: the for loop over the FaceIterator.
RECURSIVE CollectFaces(_, _, _), Collected(_, _, _)
Collected(ix, acc, face) ==
    IF ~face.some THEN acc ELSE CollectFaces(ix, face.iter, Append(acc, face.value))
CollectFaces(ix, i, acc) == Collected(ix, acc, FaceIterator_next(ix, i))

\* Tuples3 over a sequence: consecutive triples, an incomplete last one dropped.
tuples3(xs) ==
    [k \in 1..(Len(xs) \div 3) |-> << xs[3 * k - 2], xs[3 * k - 1], xs[3 * k] >>]

\* The 32 bits sign, the 31 bits below as the number bits, as f32 bytes.
F32Bytes(sign, bits) ==
    << bits % 256, (bits \div 256) % 256, (bits \div 65536) % 256,
       128 * sign + bits \div 16777216 >>

\* 1 when rounding to nearest, ties to even, rounds q up.
RoundUp(q, guard, sticky) == IF guard = 1 /\ (sticky \/ q % 2 = 1) THEN 1 ELSE 0

\* The bits of the f32 nearest to the finite non-zero f64 of biased f32
\* exponent e32, with hi the top 23 bits of its fraction, guard the next bit,
\* sticky whether a lower bit is set.
F32Rounded(e32, hi, guard, sticky) ==
    IF e32 >= 255 THEN 255 * 8388608
    ELSE IF e32 >= 1 THEN e32 * 8388608 + hi + RoundUp(hi, guard, sticky)
    ELSE IF 1 - e32 >= 25 THEN 0
    ELSE LET sig == 8388608 + hi
             shift == 1 - e32
             q == sig \div Pow2(shift)
         IN q + RoundUp(q, (sig \div Pow2(shift - 1)) % 2,
                        sig % Pow2(shift - 1) # 0 \/ guard = 1 \/ sticky)

\* importer.rs line 148: `*x as f32`, on the little-endian bytes of x.
F64ToF32(b) ==
    LET sign == b[8] \div 128
        e == (b[8] % 128) * 16 + b[7] \div 16
        hi == (b[7] % 16) * 524288 + b[6] * 2048 + b[5] * 8 + b[4] \div 32
        guard == (b[4] \div 16) % 2
        sticky == b[4] % 16 # 0 \/ b[3] # 0 \/ b[2] # 0 \/ b[1] # 0
    IN IF e = 2047
       THEN (IF hi = 0 /\ guard = 0 /\ ~sticky
             THEN F32Bytes(sign, 255 * 8388608)
             ELSE F32Bytes(sign, 255 * 8388608 + 4194304 + (hi % 4194304)))
       ELSE IF e = 0 THEN F32Bytes(sign, 0)
       ELSE F32Bytes(sign, F32Rounded(e - 896, hi, guard, sticky))

\* The names and strings the importer looks for, as bytes.
NameObjects == << 79, 98, 106, 101, 99, 116, 115 >>
NameGeometry == << 71, 101, 111, 109, 101, 116, 114, 121 >>
NameVertices == << 86, 101, 114, 116, 105, 99, 101, 115 >>
NamePolygonVertexIndex ==
    << 80, 111, 108, 121, 103, 111, 110, 86, 101, 114, 116, 101, 120,
       73, 110, 100, 101, 120 >>
StrMesh == << 77, 101, 115, 104 >>

Mesh(name, vertices, faces_) == [name |-> name, vertices |-> vertices, faces |-> faces_]
Scene(meshes_) == [meshes |-> meshes_]

\* importer.rs lines 90-100, with the result of the lookup of line 85.
FacesOf(indices_node) ==
    IF indices_node.value.properties = <<>>
    THEN Err(Panic("index out of bounds"))
    ELSE IF indices_node.value.properties[1].type # "SignedInt32Array"
    THEN Err(Panic("Unexpected data in indices node"))
    ELSE Found(CollectFaces(indices_node.value.properties[1].value, 0, <<>>))

\* get_faces: the faces, or the panic.
get_faces(geometry) ==
    IF ~NodeCollection_get(geometry.children, NamePolygonVertexIndex).ok
    THEN Err(Panic("sssss"))
    ELSE FacesOf(NodeCollection_get(geometry.children, NamePolygonVertexIndex))

\* What one iteration of import's loop does.
Continue == [kind |-> "continue"]
Push(mesh) == [kind |-> "push", mesh |-> mesh]

\* importer.rs lines 151-156, with the vertices made and the result of
\* get_faces.
MeshOf(name, vertices, fs) ==
    IF ~fs.ok THEN fs.err ELSE Push(Mesh(name, vertices, fs.value))

\* importer.rs lines 142-156, with the Vertices node found.
MeshFrom(geom, vertices_node) ==
    IF vertices_node.properties = <<>> THEN Panic("index out of bounds")
    ELSE IF vertices_node.properties[1].type # "DoubleArray"
    THEN Panic("Unexpected data in vertex node")
    ELSE MeshOf(geom.properties[2].value,
                tuples3([k \in 1..Len(vertices_node.properties[1].value) |->
                           F64ToF32(vertices_node.properties[1].value[k])]),
                get_faces(geom))

\* importer.rs line 126: unwrap() of None.
UnwrapNone == Panic("called Option::unwrap() on a None value")

\* Mutant of import_geometry: a Geometry node without Vertices or without
\* PolygonVertexIndex is skipped.
import_geometry_Recover(geom) ==
    IF Len(geom.properties) < 3 THEN Continue
    ELSE IF geom.properties[2].type # "String"
    THEN UnwrapNone
    ELSE IF geom.properties[3].type # "String" \/ geom.properties[3].value # StrMesh
    THEN Continue
    ELSE IF ~NodeCollection_get(geom.children, NameVertices).ok
    THEN Continue
    ELSE IF ~NodeCollection_get(geom.children, NamePolygonVertexIndex).ok
    THEN Continue
    ELSE MeshFrom(geom, NodeCollection_get(geom.children, NameVertices).value)

\* importer.rs lines 118-156: the body of import's loop for the node geom.
import_geometry(geom) ==
    IF Len(geom.properties) < 3 THEN Continue
    ELSE IF geom.properties[2].type # "String"
    THEN UnwrapNone
    ELSE IF geom.properties[3].type # "String" \/ geom.properties[3].value # StrMesh
    THEN Continue
    ELSE IF ~NodeCollection_get(geom.children, NameVertices).ok
    THEN Panic("Errorrrrr!")
    ELSE MeshFrom(geom, NodeCollection_get(geom.children, NameVertices).value)

\* import has not returned.
Pending == [some |-> FALSE, pending |-> TRUE]

\* The Geometry nodes import loops over.
Geometries == get_vec(NodeCollection_get(nodes, NameObjects).value.children, NameGeometry)

\* A panic of import: the meshes built so far are dropped, nothing is
\* returned.
ImportPanic(p) ==
    /\ ipc' = "panic"
    /\ err' = p
    /\ meshes' = <<>>
    /\ UNCHANGED <<nodes, gi, scene>>

\* importer.rs lines 104-116.
ImportStart ==
    /\ ipc = "start"
    /\ IF ~NodeCollection_get(nodes, NameObjects).ok
       THEN ImportPanic(Panic("woop"))
       ELSE IF ~NodeCollection_get_multiple(
                   NodeCollection_get(nodes, NameObjects).value.children,
                   NameGeometry).some
       THEN /\ scene' = None
            /\ ipc' = "done"
            /\ UNCHANGED <<nodes, gi, meshes, err>>
       ELSE /\ ipc' = "loop"
            /\ gi' = 1
            /\ meshes' = <<>>
            /\ UNCHANGED <<nodes, scene, err>>
    /\ UNCHANGED <<data, pos, pc, stack, result, version, faceVars, fbxVars, triVars>>

\* Mutant of GeometryDone: a mesh is put in front of those built before.
GeometryDone_Prepend(outcome) ==
    IF outcome.kind = "panic" THEN ImportPanic(outcome)
    ELSE /\ gi' = gi + 1
         /\ meshes' = IF outcome.kind = "push" THEN << outcome.mesh >> \o meshes
                      ELSE meshes
         /\ UNCHANGED <<nodes, scene, ipc, err>>

\* One iteration of the loop of line 117, with what its body does.
GeometryDone(outcome) ==
    IF outcome.kind = "panic" THEN ImportPanic(outcome)
    ELSE /\ gi' = gi + 1
         /\ meshes' = IF outcome.kind = "push" THEN Append(meshes, outcome.mesh)
                      ELSE meshes
         /\ UNCHANGED <<nodes, scene, ipc, err>>

\* importer.rs lines 117-157.
ImportGeometry ==
    /\ ipc = "loop"
    /\ gi <= Len(Geometries)
    /\ GeometryDone(import_geometry(Geometries[gi]))
    /\ UNCHANGED <<data, pos, pc, stack, result, version, faceVars, fbxVars, triVars>>

\* importer.rs line 159.
ImportReturn ==
    /\ ipc = "loop"
    /\ gi > Len(Geometries)
    /\ scene' = Some(Scene(meshes))
    /\ ipc' = "done"
    /\ UNCHANGED <<nodes, gi, meshes, err>>
    /\ UNCHANGED <<data, pos, pc, stack, result, version, faceVars, fbxVars, triVars>>

(***************************************************************************)
(* fbx.rs: import_fbx after import returned.  ipc is "process" inside the  *)
(* loops of lines 64-68 and "returned" when import_fbx has returned scene  *)
(* (Some(scene) of line 70, or None of line 73).                           *)
(***************************************************************************)
\* What a call of process may leave of the mesh: MeshProcessor is a trait,
\* its implementation may rewrite the mesh in place.  Two outcomes stand for
\* that: the mesh as it was, and the mesh without its faces.
Processed(mesh) == { mesh, [mesh EXCEPT !.faces = <<>>] }

\* A call processor.process(mesh): mesh m of the scene, processor p of the list.
Call(m, p) == [mesh |-> m, processor |-> p, name |-> mesh_processors[p]]

\* Mutant of ProcessorsLeft: the last processor of the list is left out.
ProcessorsLeft_SkipLast(j) == j < Len(mesh_processors)

\* fbx.rs line 65: the inner loop has a processor left.
ProcessorsLeft(j) == j <= Len(mesh_processors)

\* fbx.rs line 63: what import returned is matched.
ImportReturned ==
    /\ ipc = "done"
    /\ IF scene.some
       THEN /\ ipc' = "process"
            /\ mi' = 1
            /\ pj' = 1
       ELSE /\ ipc' = "returned"
            /\ UNCHANGED <<mi, pj>>
    /\ UNCHANGED <<nodes, gi, meshes, scene, err, mesh_processors, calls>>
    /\ UNCHANGED <<data, pos, pc, stack, result, version, faceVars, triVars>>

\* fbx.rs line 66: processor.process(mesh).
ProcessMesh ==
    /\ ipc = "process"
    /\ mi <= Len(scene.value.meshes)
    /\ ProcessorsLeft(pj)
    /\ calls' = Append(calls, Call(mi, pj))
    /\ \E mesh \in Processed(scene.value.meshes[mi]) :
         scene' = [scene EXCEPT !.value.meshes[mi] = mesh]
    /\ pj' = pj + 1
    /\ UNCHANGED <<nodes, gi, meshes, ipc, err, mesh_processors, mi>>
    /\ UNCHANGED <<data, pos, pc, stack, result, version, faceVars, triVars>>

\* fbx.rs lines 64-65: the inner loop is over, the outer goes to the next mesh.
NextMesh ==
    /\ ipc = "process"
    /\ mi <= Len(scene.value.meshes)
    /\ ~ProcessorsLeft(pj)
    /\ mi' = mi + 1
    /\ pj' = 1
    /\ UNCHANGED <<nodes, gi, meshes, scene, ipc, err, mesh_processors, calls>>
    /\ UNCHANGED <<data, pos, pc, stack, result, version, faceVars, triVars>>

\* fbx.rs line 70: return Some(scene).
ImportFbxReturn ==
    /\ ipc = "process"
    /\ mi > Len(scene.value.meshes)
    /\ ipc' = "returned"
    /\ UNCHANGED <<nodes, gi, meshes, scene, err, fbxVars, triVars>>
    /\ UNCHANGED <<data, pos, pc, stack, result, version, faceVars>>

\* importer.rs lines 96-98: one iteration of get_faces' loop, with what next()
\* returned.
FaceReturned(face) ==
    IF ~face.some
    THEN /\ fpc' = "done"
         /\ iter' = face.iter
         /\ UNCHANGED <<indices, faces>>
    ELSE /\ faces' = Append(faces, face.value)
         /\ iter' = face.iter
         /\ UNCHANGED <<indices, fpc>>

FaceLoop ==
    /\ fpc = "faces"
    /\ FaceReturned(FaceIterator_next(indices, iter))
    /\ UNCHANGED <<parseVars, importVars, fbxVars, triVars>>

(***************************************************************************)
(* polygon_utils.rs and mesh_processor/triangulate_processor.rs.           *)
(* Coordinates are integers: the code selects, compares, adds and          *)
(* multiplies coordinates, which is exact on small integers in f32.        *)
(* Indices into Rust vectors are 0-based, so element k of a vector v is    *)
(* v[k + 1] here.  The pixels of the debugging images are not modelled;    *)
(* whether the images can be saved is, as the variable writable.           *)
(***************************************************************************)
Abs(x) == IF x < 0 THEN -x ELSE x

\* polygon_utils.rs lines 5-18, Newell's method.  glm::normalize divides the
\* sum by its length, which keeps the signs of the components and the order
\* of their absolute values; of the zero vector it makes NaNs, for which
\* every comparison of project_triangle_into_2d is false, as it is for zeros.
RECURSIVE NewellSum(_, _, _)
NewellSum(ix, vertices, k) ==
    IF k >= Len(ix)
    THEN << 0, 0, 0 >>
    ELSE LET current == vertices[ix[k + 1] + 1]
             next    == vertices[ix[((k + 1) % Len(ix)) + 1] + 1]
             rest    == NewellSum(ix, vertices, k + 1)
         IN  << rest[1] + (current[2] - next[2]) * (current[3] + next[3]),
                rest[2] + (current[3] - next[3]) * (current[1] + next[1]),
                rest[3] + (current[1] - next[1]) * (current[2] + next[2]) >>

calculate_surface_normal(face, vertices) == NewellSum(face.indices, vertices, 0)

\* triangulate_processor.rs lines 156-176: the two axes kept by the
\* projection, 0-based, swapped when the normal points the other way.
ProjectAxes(normal) ==
    LET ax == Abs(normal[1])
        ay == Abs(normal[2])
        az == Abs(normal[3])
        chosen == IF ax > ay
                  THEN (IF ax > az THEN << 1, 2, normal[1] >> ELSE << 0, 1, normal[3] >>)
                  ELSE (IF ay > az THEN << 2, 0, normal[2] >> ELSE << 0, 1, normal[3] >>)
    IN  IF chosen[3] < 0 THEN << chosen[2], chosen[1] >> ELSE << chosen[1], chosen[2] >>

\* triangulate_processor.rs lines 153-186: one 2d vertex per index of the face.
ProjectOnto(axes, face, vertices) ==
    [ k \in 1..Len(face.indices) |->
        << vertices[face.indices[k] + 1][axes[1] + 1],
           vertices[face.indices[k] + 1][axes[2] + 1] >> ]

project_triangle_into_2d(face, vertices) ==
    ProjectOnto(ProjectAxes(calculate_surface_normal(face, vertices)), face, vertices)

\* vertices[face.indices[i] as usize] panics on an index outside the vector;
\* a negative i32 cast to usize is far outside it.
IndicesInBounds(face, vertices) ==
    \A k \in 1..Len(face.indices) :
        face.indices[k] >= 0 /\ face.indices[k] < Len(vertices)

\* triangulate_processor.rs lines 13-19
triangle_area_2d(v1, v2, v3) ==
    (v1[1] * (v3[2] - v2[2])) + (v2[1] * (v1[2] - v3[2])) + (v3[1] * (v2[2] - v1[2]))

is_point_on_left_side_of_line(line_v1, line_v2, point) ==
    triangle_area_2d(line_v1, point, line_v2) > 0

\* polygon_utils.rs lines 21-34
sign(v0, v1, v2) ==
    ((v0[1] - v2[1]) * (v1[2] - v2[2])) - ((v1[1] - v2[1]) * (v0[2] - v2[2]))

HasNegPos(d1, d2, d3) ==
    /\ (d1 < 0 \/ d2 < 0 \/ d3 < 0)
    /\ (d1 > 0 \/ d2 > 0 \/ d3 > 0)

is_point_in_triangle_2d(point, v0, v1, v2) ==
    ~HasNegPos(sign(point, v0, v1), sign(point, v1, v2), sign(point, v2, v0))

\* face_vertex_iterator.rs lines 22-28: the items next() yields one after the
\* other, &self.vertices[*index as usize]; the item of an index outside the
\* vector is a panic, which happens only if the iteration gets that far.
FaceVertexIterator(ix, vertices) ==
    [ k \in 1..Len(ix) |->
        IF ix[k] >= 0 /\ ix[k] < Len(vertices)
        THEN [oob |-> FALSE, vertex |-> vertices[ix[k] + 1]]
        ELSE [oob |-> TRUE, vertex |-> << 0, 0 >>] ]

\* polygon_utils.rs lines 36-45: "true", "false", or "panic" when the
\* iterator panicked before a vertex inside the triangle was found.
RECURSIVE ContainsFrom(_, _, _, _, _)
ContainsFrom(v0, v1, v2, items, k) ==
    IF k > Len(items) THEN "false"
    ELSE IF items[k].oob THEN "panic"
    ELSE IF /\ items[k].vertex # v0
            /\ items[k].vertex # v1
            /\ items[k].vertex # v2
            /\ is_point_in_triangle_2d(items[k].vertex, v0, v1, v2)
         THEN "true"
         ELSE ContainsFrom(v0, v1, v2, items, k + 1)

tri_contains_other_verts_2d(v0, v1, v2, items) == ContainsFrom(v0, v1, v2, items, 1)

\* triangulate_processor.rs lines 235-238: the nearest vertex before i that
\* is not clipped, 0-based, wrapping around.
RECURSIVE PreviousFrom(_, _)
PreviousFrom(clipped, previous) ==
    IF clipped[previous + 1]
    THEN PreviousFrom(clipped, IF previous = 0 THEN Len(clipped) - 1 ELSE previous - 1)
    ELSE previous

PreviousOf(clipped, k) ==
    PreviousFrom(clipped, IF k = 0 THEN Len(clipped) - 1 ELSE k - 1)

\* triangulate_processor.rs lines 240-243
RECURSIVE NextFrom(_, _)
NextFrom(clipped, next) ==
    IF clipped[next + 1]
    THEN NextFrom(clipped, (next + 1) % Len(clipped))
    ELSE next

NextOf(clipped, k) == NextFrom(clipped, (k + 1) % Len(clipped))

\* triangulate_processor.rs line 262
Ear(face, previous, k, next) ==
    Face(<< face.indices[previous + 1], face.indices[k + 1], face.indices[next + 1] >>)

Replaced_Truncated(mesh, fs) == [mesh EXCEPT !.faces = fs, !.vertices = <<>>]

\* triangulate_processor.rs line 281
Replaced(mesh, fs) == [mesh EXCEPT !.faces = fs]

TriPanic ==
    /\ tpc' = "panic"
    /\ UNCHANGED <<tmesh, new_faces, face_counter, clipped_vertices, polygon_size, i_for>>

\* triangulate_processor.rs lines 212-226 and 280-281: the for loop over
\* mesh.faces takes the next face, or ends.  Saving an image into
\* /Users/emil/temp is unwrapped, so process panics where that fails.
TriFace ==
    /\ tpc = "faces"
    /\ IF face_counter >= Len(tmesh.faces)
       THEN IF writable
            THEN /\ tmesh' = Replaced(tmesh, new_faces)
                 /\ tpc' = "done"
                 /\ UNCHANGED <<new_faces, face_counter, clipped_vertices, polygon_size, i_for>>
            ELSE TriPanic
       ELSE LET face == tmesh.faces[face_counter + 1] IN
            IF Len(face.indices) = 3
            THEN /\ face_counter' = face_counter + 1
                 /\ UNCHANGED <<tmesh, new_faces, clipped_vertices, polygon_size, i_for, tpc>>
            ELSE IF ~IndicesInBounds(face, tmesh.vertices) \/ ~writable
            THEN TriPanic
            ELSE /\ face_counter' = face_counter + 1
                 /\ clipped_vertices' = [k \in 1..Len(face.indices) |-> FALSE]
                 /\ polygon_size' = Len(face.indices)
                 /\ tpc' = "while"
                 /\ UNCHANGED <<tmesh, new_faces, i_for>>
    /\ UNCHANGED <<parseVars, importVars, faceVars, fbxVars, writable>>

\* triangulate_processor.rs lines 227-230: the test of the while loop
TriWhile ==
    /\ tpc = "while"
    /\ IF polygon_size > 3
       THEN /\ i_for' = 0
            /\ tpc' = "for"
       ELSE /\ tpc' = "faces"
            /\ UNCHANGED i_for
    /\ UNCHANGED <<tmesh, new_faces, face_counter, clipped_vertices, polygon_size>>
    /\ UNCHANGED <<parseVars, importVars, faceVars, fbxVars, writable>>

\* triangulate_processor.rs lines 249-275: vertex i, which is not clipped,
\* between previous and next, on the projected vertices.
TryEar(face, plane_vertices, previous, next) ==
    IF is_point_on_left_side_of_line(plane_vertices[previous + 1],
                                     plane_vertices[next + 1],
                                     plane_vertices[i_for + 1])
    THEN "continue"
    ELSE LET contains == tri_contains_other_verts_2d(
                             plane_vertices[previous + 1],
                             plane_vertices[i_for + 1],
                             plane_vertices[next + 1],
                             FaceVertexIterator(face.indices, plane_vertices))
         IN  IF contains = "panic" THEN "panic"
             ELSE IF contains = "true" THEN "continue"
             ELSE "clip"

NextVertex ==
    /\ i_for' = i_for + 1
    /\ UNCHANGED <<tmesh, new_faces, face_counter, clipped_vertices, polygon_size, tpc>>

Clip(face, previous, next) ==
    /\ new_faces' = Append(new_faces, Ear(face, previous, i_for, next))
    /\ clipped_vertices' = [clipped_vertices EXCEPT ![i_for + 1] = TRUE]
    /\ polygon_size' = polygon_size - 1
    /\ IF polygon_size - 1 < 3
       THEN /\ tpc' = "while"
            /\ UNCHANGED i_for
       ELSE /\ i_for' = i_for + 1
            /\ UNCHANGED tpc
    /\ UNCHANGED <<tmesh, face_counter>>

EarOutcome(face, outcome) ==
    IF outcome = "panic" THEN TriPanic
    ELSE IF outcome = "continue" THEN NextVertex
    ELSE Clip(face, PreviousOf(clipped_vertices, i_for), NextOf(clipped_vertices, i_for))

\* triangulate_processor.rs lines 230-276: one iteration of the for loop
TriFor ==
    /\ tpc = "for"
    /\ LET face == tmesh.faces[face_counter] IN
       IF i_for >= Len(face.indices)
       THEN /\ tpc' = "while"
            /\ UNCHANGED <<tmesh, new_faces, face_counter, clipped_vertices,
                           polygon_size, i_for>>
       ELSE IF clipped_vertices[i_for + 1]
       THEN NextVertex
       ELSE EarOutcome(face,
                TryEar(face, project_triangle_into_2d(face, tmesh.vertices),
                       PreviousOf(clipped_vertices, i_for),
                       NextOf(clipped_vertices, i_for)))
    /\ UNCHANGED <<parseVars, importVars, faceVars, fbxVars, writable>>

(***************************************************************************)
(* Idle values of the variables a specification does not use               *)
(***************************************************************************)
ParseIdle ==
    /\ data = <<>>
    /\ pos = 0
    /\ pc = "idle"
    /\ stack = <<>>
    /\ result = <<>>
    /\ err = NoError
    /\ version = -1

ImportIdle ==
    /\ nodes = <<>>
    /\ gi = 0
    /\ meshes = <<>>
    /\ scene = Pending
    /\ ipc = "idle"

FaceIdle ==
    /\ fpc = "idle"
    /\ indices = <<>>
    /\ iter = 0
    /\ faces = <<>>

FbxIdle ==
    /\ mesh_processors = <<>>
    /\ mi = 0
    /\ pj = 0
    /\ calls = <<>>

TriIdle ==
    /\ tmesh = Mesh(<<>>, <<>>, <<>>)
    /\ new_faces = <<>>
    /\ face_counter = 0
    /\ clipped_vertices = <<>>
    /\ polygon_size = 0
    /\ i_for = 0
    /\ writable = FALSE
    /\ tpc = "idle"

(***************************************************************************)
(* Spec: parse_fbx (parse_header, then parse_nodes) on the files           *)
(***************************************************************************)
Init ==
    /\ data \in Files
    /\ pos = 0
    /\ pc = "header"
    /\ stack = <<>>
    /\ result = <<>>
    /\ err = NoError
    /\ version = -1
    /\ ImportIdle
    /\ FaceIdle
    /\ FbxIdle
    /\ TriIdle

Next ==
    \/ ParseHeader
    \/ NodesLoop
    \/ NodeStart
    \/ NodeHeader
    \/ ParseProperties
    \/ CheckPropertyLength
    \/ Children
    \/ ChildLoop
    \/ Sentinel
    \/ EndCheck
    \/ NodeReturn

Spec == Init /\ [][Next]_vars

\* The files of the liveness specification: the files above whose arrays are
\* stored raw.  Inflating a compressed array is one step of parse_property;
\* the loops and the recursion of node.rs are the same on every file.
RawFiles ==
    UNION { {f} \cup OneByteChanged(f) \cup Truncated(f) :
              f \in { WellFormed(0), WellFormed(1), TerminatorFirstFile } }

InitFair ==
    /\ data \in RawFiles
    /\ pos = 0
    /\ pc = "header"
    /\ stack = <<>>
    /\ result = <<>>
    /\ err = NoError
    /\ version = -1
    /\ ImportIdle
    /\ FaceIdle
    /\ FbxIdle
    /\ TriIdle

\* parse_fbx is one sequential call: while a step is possible the program
\* takes it.
SpecFair == InitFair /\ [][Next]_vars /\ WF_vars(Next)

(***************************************************************************)
(* Claims about parse_header and parse_node (checked under Spec)           *)
(***************************************************************************)
\* The frames of the calls that are past the property-length check of line 43.
PastPropertyCheck ==
    { stack[k] : k \in 1..(Len(stack) - 1) }
    \cup (IF stack # <<>> /\ pc \in {"children", "child_loop", "node_start",
                                     "sentinel", "end_check", "node_ok"}
          THEN { Top } ELSE {})

\* No record was produced by the step: the stack and the result are as before.
NoRecord == result' = result /\ stack' = stack

\* The step ends decoding with a validation error.
RejectedWith(m) == pc' = "error" /\ err' = ValidationError(m)

\* The position after decoding n properties from position p of d, or -1 when
\* one of them fails to decode.
RECURSIVE PropertiesEnd(_, _, _)
PropertiesEnd(d, p, n) ==
    IF n = 0 THEN p
    ELSE IF ~parse_property(d, p).ok THEN -1
    ELSE PropertiesEnd(d, parse_property(d, p).pos, n - 1)

\* C1: whenever parse_node returns a record (at any depth), the stream
\* position equals the node's declared end_offset; and when the position at
\* the final check differs from end_offset, parse_node ends with a validation
\* error and returns no record.
C1_EndOffsetReached ==
    /\ [](pc = "node_ok" => pos = Top.end_offset)
    /\ [][(pc = "end_check" /\ pos # Top.end_offset)
            => (RejectedWith("end offset not reached.") /\ NoRecord)]_vars

\* C1 witness: a nested node with children of its own is returned, its
\* properties, children and sentinel consumed.
C1_Witness ==
    /\ pc = "node_ok"
    /\ Len(stack) >= 2
    /\ Top.child_nodes # <<>>
    /\ Top.properties # <<>>

\* C2: every node that passes the check of line 43 has had its
\* num_properties properties decoded from exactly property_length_bytes
\* bytes; and when the bytes consumed differ from the declared length (fewer
\* or more), parse_node ends with a validation error and returns no record.
C2_PropertyLengthExact ==
    /\ [](\A f \in PastPropertyCheck :
            PropertiesEnd(data, f.property_start_offset, f.num_properties)
              = f.property_start_offset + f.property_length_bytes)
    /\ [][(pc = "props_check"
             /\ pos - Top.property_start_offset # Top.property_length_bytes)
            => (RejectedWith("did not read correct amount of bytes when parsing properties")
                  /\ NoRecord)]_vars

\* C2 witness: a node with several properties has passed the check.
C2_Witness ==
    /\ pc = "children"
    /\ Top.num_properties >= 2
    /\ Top.property_length_bytes > Top.num_properties

\* Whether frame f has bytes between the end of its properties and end_offset.
HasNestedBlock(f) == f.property_start_offset + f.property_length_bytes < f.end_offset

\* C3: a node with bytes after its properties is returned only when the 13
\* bytes of its sentinel block are all zero; when the 13 bytes read at line 63
\* hold a non-zero byte, parse_node ends with a validation error and returns
\* no record.
C3_SentinelAllZero ==
    /\ []((pc = "node_ok" /\ HasNestedBlock(Top))
            => Bytes(data, pos - sentinel_block_length, sentinel_block_length)
                 = Zeros(sentinel_block_length))
    /\ [][(pc = "sentinel" /\ CanRead(data, pos, sentinel_block_length)
             /\ \E i \in 1..sentinel_block_length : data[pos + i] # 0)
            => (RejectedWith("sentinel block contains non-zero values") /\ NoRecord)]_vars

\* C3 witness: a sentinel block with a non-zero byte in its last place has
\* been rejected.
C3_Witness ==
    /\ pc = "error"
    /\ err = ValidationError("sentinel block contains non-zero values")
    /\ data[pos] # 0
    /\ Bytes(data, pos - sentinel_block_length, sentinel_block_length - 1)
         = Zeros(sentinel_block_length - 1)

\* C4: every call of parse_node past line 31 has 0 < end_offset < file_length;
\* a non-zero end_offset that is file_length or more ends parse_node with a
\* validation error when only the 4 bytes of end_offset have been read.
C4_EndOffsetInsideFile ==
    /\ [](\A k \in 1..Len(stack) :
            stack[k].end_offset > 0 /\ stack[k].end_offset < Len(data))
    /\ [][(pc = "node_start" /\ CanRead(data, pos, 4)
             /\ LeU32(Bytes(data, pos, 4)) # 0
             /\ LeU32(Bytes(data, pos, 4)) >= Len(data))
            => (RejectedWith("end offset is outside bounds")
                  /\ pos' = pos + 4 /\ NoRecord)]_vars

\* C4 witness: a node whose end_offset is exactly file_length has been
\* rejected, 4 bytes into it.
C4_Witness ==
    /\ pc = "error"
    /\ err = ValidationError("end offset is outside bounds")
    /\ LeU32(Bytes(data, pos - 4, 4)) = Len(data)

\* Whether parse_header has returned a Header.
HeaderProduced == version # -1

\* The first 21 bytes of the stream are the magic string.
MagicPresent == Len(data) >= MagicLength /\ Take(data, MagicLength) = Magic

\* C8 as stated: parse_header succeeds iff the first 21 bytes are the magic
\* string.
C8_Original == pc # "header" => (HeaderProduced <=> MagicPresent)

\* C8 amended: parse_header succeeds iff the first 21 bytes are the magic
\* string and the stream holds the 4 bytes of the version at offsets 23..26
\* (a shorter stream is an I/O error); the Header then holds the
\* little-endian u32 at offset 23; 21 bytes that differ from the magic string
\* in any place fail with a format or validation error and no Header.
C8_HeaderMagic ==
    pc # "header" =>
      /\ HeaderProduced <=> (MagicPresent /\ Len(data) >= MagicLength + 6)
      /\ HeaderProduced => version = LeU32(Bytes(data, MagicLength + 2, 4))
      /\ (Len(data) >= MagicLength /\ ~MagicPresent)
           => /\ pc = "error"
              /\ err.kind \in {"FormatError", "ValidationError"}
              /\ ~HeaderProduced

\* C8 witness: a stream that differs from a well-formed one in the case of one
\* letter of the magic string has been rejected.
C8_Witness ==
    /\ pc = "error"
    /\ err = ValidationError("file header magic string is incorrect")
    /\ \E k \in 1..MagicLength :
         /\ IsLetter(Magic[k])
         /\ data[k] = OtherCase(Magic[k])
         /\ [data EXCEPT ![k] = Magic[k]] \in WellFormedFiles

(***************************************************************************)
(* SpecProperty: parse_properties on property buffers, as the tests of     *)
(* property.rs call it.  The frame on the stack holds num_properties and   *)
(* the vector of the properties decoded so far.                            *)
(***************************************************************************)
\* The most elements of an array property, and the most bytes of a string.
MaxElems == 3
MaxStr == 3

\* The sequences over S of length 0..n.
SeqsUpTo(S, n) == UNION { [1..k -> S] : k \in 0..n }

ArrayKinds == { Tagf, Tagd, Tagl, Tagi, Tagb }

\* size_of::<T>() of the element type of an array kind (bool arrays are read
\* as u8).
ElemSize(t) ==
    CASE t = Tagf -> 4 [] t = Tagd -> 8 [] t = Tagl -> 8 [] t = Tagi -> 4 [] OTHER -> 1

\* The element values of the inputs, as little-endian bytes.
Elems(t) ==
    CASE t = Tagf -> { << 0, 0, 0, 0 >>, << 0, 0, 128, 63 >> }
      [] t = Tagd -> { Zeros(8), << 0, 0, 0, 0, 0, 0, 240, 63 >> }
      [] t = Tagl -> { << 1, 0, 0, 0, 0, 0, 0, 0 >>,
                       << 255, 255, 255, 255, 255, 255, 255, 255 >> }
      [] t = Tagi -> { I32Bytes(0), I32Bytes(1), I32Bytes(2), I32Bytes(-3) }
      [] OTHER    -> { << 0 >>, << 1 >>, << 2 >>, << 255 >> }

\* An array property of kind t, raw: encoding 0, length the number of values.
RawArray(t, vs) ==
    << t >> \o U32Bytes(Len(vs)) \o U32Bytes(0) \o U32Bytes(0) \o Concat(vs)

\* An array property of kind t, compressed: encoding 1, the zlib stream z.
ZlibArray(t, length, z) ==
    << t >> \o U32Bytes(length) \o U32Bytes(1) \o U32Bytes(Len(z)) \o z

\* The zlib streams of the bytes s: one stored block, one fixed-code block.
Zlibs(s) == { ZlibStored(s), ZlibFixed(s) }

\* The compressed payload of the test
\* get_property_raw_byte_cursor_should_handle_compressed_data: [0, 1, 2] as i32.
TestPayload == << 120, 156, 99, 0, 2, 70, 32, 102, 2, 98, 0, 0, 28, 0, 4 >>

\* Buffers of two properties: the values vs raw, then the same values
\* compressed, with the declared length the number of values or 0.
ArrayPairs ==
    UNION { UNION { { RawArray(t, vs) \o ZlibArray(t, n, z) :
                        n \in { Len(vs), 0 }, z \in Zlibs(Concat(vs)) } :
                    vs \in SeqsUpTo(Elems(t), MaxElems) } :
            t \in ArrayKinds }
    \cup { RawArray(Tagi, << I32Bytes(0), I32Bytes(1), I32Bytes(2) >>)
             \o ZlibArray(Tagi, 3, TestPayload) }

\* The bytes of the strings: NUL, 'M', and 233, which is no UTF-8 by itself.
StringBytes == SeqsUpTo({ 0, 77, 233 }, MaxStr)

\* An 'S' property declaring n bytes, holding b.
StringProp(n, b) == << TagS >> \o U32Bytes(n) \o b

\* Buffers of two properties, an 'S' and a 'C'; some declare more bytes than
\* the string has (one more: the 'C' is taken for its last byte; three more:
\* the buffer ends first).
StringBuffers ==
    { StringProp(Len(b) + more, b) \o PropC : b \in StringBytes, more \in { 0, 1, 3 } }
    \cup { PropS \o PropC }

\* Bytes after the last whole element of a compressed array: none, or three.
Tails(t) == IF ElemSize(t) = 1 THEN { <<>> } ELSE { <<>>, << 9, 0, 0 >> }

\* Buffers of two properties: a compressed array whose declared length is 0 or
\* one more than its number of values, with or without bytes after its last
\* whole element; and a 'C'.
CompressedArrays ==
    UNION { UNION { { ZlibArray(t, n, z) \o PropC :
                        n \in { 0, Len(vs) + 1 },
                        z \in UNION { Zlibs(Concat(vs) \o tail) : tail \in Tails(t) } } :
                    vs \in SeqsUpTo(Elems(t), MaxElems) } :
            t \in ArrayKinds }

\* Buffers of two properties: a 'C' of every byte value, and a raw 'b' array of
\* that byte and 1.
BoolBuffers ==
    { << TagC, v >> \o RawArray(Tagb, << << v >>, << 1 >> >>) : v \in Byte }

ScalarTags == { TagY, TagI, TagL, TagF, TagD, TagC }

\* The number of bytes a scalar decoder reads.
Width(t) ==
    CASE t = TagY -> 2 [] t = TagI -> 4 [] t = TagL -> 8 [] t = TagF -> 4
      [] t = TagD -> 8 [] OTHER -> 1

\* Eight bytes to take the scalar values from.
ScalarPatterns ==
    { << 1, 2, 3, 4, 5, 6, 7, 8 >>,
      << 255, 255, 255, 255, 255, 255, 255, 255 >>,
      << 0, 128, 255, 128, 0, 0, 240, 63 >>,
      << 254, 255, 0, 0, 67, 1, 0, 128 >> }

\* Buffers of a scalar type code and 0 to 8 bytes: fewer than the width of the
\* scalar, the width, or more.
ScalarBuffers ==
    { << t >> \o Take(b, n) : t \in ScalarTags, b \in ScalarPatterns, n \in 0..8 }

PropertyBuffers ==
    ArrayPairs \cup StringBuffers \cup CompressedArrays \cup BoolBuffers
      \cup ScalarBuffers

\* parse_properties(reader, 2) at the start of a buffer.
InitProperty ==
    /\ data \in PropertyBuffers
    /\ pos = 0
    /\ pc = "props"
    /\ stack = << [end_offset |-> 0,
                   num_properties |-> 2,
                   property_length_bytes |-> 0,
                   name |-> <<>>,
                   property_start_offset |-> 0,
                   properties |-> <<>>,
                   child_nodes |-> <<>>] >>
    /\ result = <<>>
    /\ err = NoError
    /\ version = -1
    /\ ImportIdle
    /\ FaceIdle
    /\ FbxIdle
    /\ TriIdle

NextProperty == ParseProperties

SpecProperty == InitProperty /\ [][NextProperty]_vars

(***************************************************************************)
(* Claims about the property decoders (checked under SpecProperty)         *)
(***************************************************************************)
\* The buffer d holds an array property with encoding 0 followed by an array
\* property of the same kind with another encoding, whose payload is a zlib
\* stream of the element bytes of the first.
IsArrayPair(d) ==
    /\ Len(d) >= 13
    /\ d[1] \in ArrayKinds
    /\ LeU32(Bytes(d, 5, 4)) = 0
    /\ LET length == LeU32(Bytes(d, 1, 4))
           q == 13 + ElemSize(d[1]) * length
       IN /\ RawFits(d, 13, ElemSize(d[1]), length)
          /\ CanRead(d, q, 13)
          /\ d[q + 1] = d[1]
          /\ LeU32(Bytes(d, q + 5, 4)) # 0
          /\ CanRead(d, q + 13, LeU32(Bytes(d, q + 9, 4)))
          /\ Inflate(Bytes(d, q + 13, LeU32(Bytes(d, q + 9, 4))))
               = [ok |-> TRUE, out |-> Bytes(d, 13, ElemSize(d[1]) * length)]

\* C5: for a buffer that holds the raw encoding of some values and then a
\* zlib-compressed encoding of the same element bytes, both properties decode,
\* to the same kind and the identical sequence of elements, as many as the
\* raw encoding declares.
C5_RawAndZlibAgree ==
    (stack # <<>> /\ IsArrayPair(data)) =>
      /\ pc \in { "props", "props_check" }
      /\ pc = "props_check" =>
           /\ Len(Top.properties) = 2
           /\ Top.properties[1] = Top.properties[2]
           /\ Len(Top.properties[1].value) = LeU32(Bytes(data, 1, 4))
           /\ pos = Len(data)

\* C5 witness: [0, 1, 2] as int32, raw and compressed as in the test of
\* property.rs, both decoded.
C5_Witness ==
    /\ pc = "props_check"
    /\ data = RawArray(Tagi, << I32Bytes(0), I32Bytes(1), I32Bytes(2) >>)
                \o ZlibArray(Tagi, 3, TestPayload)
    /\ Top.properties = << Prop("SignedInt32Array", << 0, 1, 2 >>),
                           Prop("SignedInt32Array", << 0, 1, 2 >>) >>

\* C7: when an 'S' property has been decoded, the stream has advanced by the
\* 4 bytes of the length n and exactly n bytes, and the value is the bytes
\* before the first NUL of those n (all of them if none is NUL): no byte at
\* or after the first NUL is in the value.
C7_StringTruncatedAtNul ==
    (stack # <<>> /\ data # <<>> /\ data[1] = TagS /\ Top.properties # <<>>) =>
      LET n == LeU32(Bytes(data, 1, 4))
          bytes == Bytes(data, 5, n)
          v == Top.properties[1]
      IN /\ v.type = "String"
         /\ Len(v.value) <= n
         /\ \A k \in 1..Len(v.value) : v.value[k] = bytes[k] /\ bytes[k] # 0
         /\ Len(v.value) < n => bytes[Len(v.value) + 1] = 0
         /\ Len(Top.properties) = 1 => pos = 5 + n

\* C7 witness: "Model\0\0Mesh" has been decoded, to "Model".
C7_Witness ==
    /\ data = PropS \o PropC
    /\ stack # <<>>
    /\ Len(Top.properties) = 2
    /\ Top.properties[1] = Prop("String", << 77, 111, 100, 101, 108 >>)

(***************************************************************************)
(* SpecFaces: get_faces' loop over the FaceIterator of an index array      *)
(***************************************************************************)
\* The most indices of an index array.
MaxIndices == 4

\* The example of spec.md section 8.
ExampleIndices == << 0, 1, -3, 3, 4, -6 >>

IndexArrays ==
    SeqsUpTo({ 0, 1, -1, -3 }, MaxIndices)
    \cup { ExampleIndices, << 5, -2147483647 - 1 >>, << 7, 2147483647, -2147483647 >> }

InitFaces ==
    /\ indices \in IndexArrays
    /\ iter = 0
    /\ faces = <<>>
    /\ fpc = "faces"
    /\ ParseIdle
    /\ ImportIdle
    /\ FbxIdle
    /\ TriIdle

NextFaces == FaceLoop

SpecFaces == InitFaces /\ [][NextFaces]_vars

\* The position in the index array where face j of fs ends.
FaceEnd(fs, j) == Len(Concat([k \in 1..j |-> fs[k].indices]))

\* C6: the faces decoded so far are the indices consumed so far, in order,
\* each negative value v replaced by ~v = -(v + 1); every face has at
\* least one index, holds a negative value of the array only in its last
\* place, and ends at a negative value unless the array ends there; and
\* [0, 1, -3, 3, 4, -6] decodes to exactly [0,1,2], [3,4,5].
C6_FacesClosedByNegative ==
    fpc # "idle" =>
      LET flat == Concat([k \in 1..Len(faces) |-> faces[k].indices])
      IN /\ Len(flat) = iter
         /\ fpc = "done" => iter = Len(indices)
         /\ \A k \in 1..Len(flat) :
              flat[k] = IF indices[k] < 0 THEN 0 - (indices[k] + 1) ELSE indices[k]
         /\ \A j \in 1..Len(faces) :
              /\ faces[j].indices # <<>>
              /\ indices[FaceEnd(faces, j)] < 0 \/ FaceEnd(faces, j) = Len(indices)
              /\ \A k \in (FaceEnd(faces, j - 1) + 1)..(FaceEnd(faces, j) - 1) :
                   indices[k] >= 0
         /\ (fpc = "done" /\ indices = ExampleIndices)
              => faces = << Face(<< 0, 1, 2 >>), Face(<< 3, 4, 5 >>) >>

\* C29: when get_faces' loop is over, the index lists of the faces, one after
\* the other, are the whole index array in its order with every negative
\* value v replaced by ~v = -(v + 1) (so nothing is dropped, duplicated or
\* reordered, and indices after the last negative value are a final face);
\* no face is empty and no index of a face is negative.
C29_FacesAreTheArray ==
    fpc = "done" =>
        /\ Concat([j \in 1..Len(faces) |-> faces[j].indices])
              = [k \in 1..Len(indices) |->
                    IF indices[k] < 0 THEN 0 - (indices[k] + 1) ELSE indices[k]]
        /\ \A j \in 1..Len(faces) :
              /\ Len(faces[j].indices) >= 1
              /\ \A m \in 1..Len(faces[j].indices) : faces[j].indices[m] >= 0

\* C29 witness: an array that ends after its last negative value has been
\* decoded: the two trailing indices are the final face.
C29_Witness ==
    /\ fpc = "done"
    /\ indices = << 1, -3, 0, 1 >>
    /\ faces = << Face(<< 1, 2 >>), Face(<< 0, 1 >>) >>

\* C6 witness: the example array has been decoded into its two faces.
C6_Witness ==
    /\ fpc = "done"
    /\ indices = ExampleIndices
    /\ Len(faces) = 2
    /\ faces[2] = Face(<< 3, 4, 5 >>)

(***************************************************************************)
(* SpecImport: import on root collections, then import_fbx's loops         *)
(***************************************************************************)
\* The most Geometry nodes under Objects.
MaxGeometry == 2

NameModel == << 77, 111, 100, 101, 108 >>
StrShape == << 83, 104, 97, 112, 101 >>

\* Property values of the input nodes.
PropId    == Prop("SignedInt64", << 9, 0, 0, 0, 0, 0, 0, 0 >>)
PropStr(b) == Prop("String", b)
F64One    == << 0, 0, 0, 0, 0, 0, 240, 63 >>
F64Tenth  == << 154, 153, 153, 153, 153, 153, 185, 63 >>

\* A Vertices node of one vertex and a coordinate more; a PolygonVertexIndex
\* node of one triangle.
VerticesNode ==
    Node(NameVertices, << Prop("DoubleArray", << Zeros(8), F64One, F64Tenth, F64One >>) >>,
         NodeCollection_new)
IndexNode ==
    Node(NamePolygonVertexIndex, << Prop("SignedInt32Array", << 0, 1, -3 >>) >>,
         NodeCollection_new)

\* A PolygonVertexIndex node whose array closes a face after one index and
\* ends inside a face of two.
ShortFacesNode ==
    Node(NamePolygonVertexIndex,
         << Prop("SignedInt32Array", << 0, 1, -3, -1, 4, 5 >>) >>,
         NodeCollection_new)

Collection(ns) == ns

\* The Geometry nodes of the inputs: two meshes; nodes the Mesh filter skips
\* (too few properties, another object type, an object type that is no
\* String); Mesh nodes without Vertices, without PolygonVertexIndex; a node
\* whose name property is no String.
GeometryNodes ==
    { Node(NameGeometry, << PropId, PropStr(<< 65 >>), PropStr(StrMesh) >>,
           Collection(<< VerticesNode, IndexNode >>)),
      Node(NameGeometry, << PropId, PropStr(<< 66 >>), PropStr(StrMesh) >>,
           Collection(<< IndexNode, VerticesNode >>)),
      Node(NameGeometry, << PropId, PropStr(<< 67 >>) >>,
           Collection(<< VerticesNode, IndexNode >>)),
      Node(NameGeometry, << PropId, PropStr(<< 68 >>), PropStr(StrShape) >>,
           NodeCollection_new),
      Node(NameGeometry, << PropId, PropStr(<< 69 >>), PropId >>,
           NodeCollection_new),
      Node(NameGeometry, << PropId, PropStr(<< 70 >>), PropStr(StrMesh) >>,
           Collection(<< IndexNode >>)),
      Node(NameGeometry, << PropId, PropStr(<< 71 >>), PropStr(StrMesh) >>,
           Collection(<< VerticesNode >>)),
      Node(NameGeometry, << PropId, PropId, PropStr(StrShape) >>,
           NodeCollection_new),
      Node(NameGeometry, << PropId, PropStr(<< 72 >>), PropStr(StrMesh) >>,
           Collection(<< VerticesNode, ShortFacesNode >>)) }

ModelNode == Node(NameModel, << PropId >>, NodeCollection_new)

\* The children of Objects: up to MaxGeometry Geometry nodes, alone or after a
\* Model node.
ObjectsChildren ==
    UNION { { gs, << ModelNode >> \o gs } : gs \in SeqsUpTo(GeometryNodes, MaxGeometry) }

\* The root collections: with an Objects node, alone or after another node;
\* and without one.
RootCollections ==
    UNION { { << Node(NameObjects, <<>>, cs) >>,
              << ModelNode, Node(NameObjects, <<>>, cs) >> } : cs \in ObjectsChildren }
    \cup { NodeCollection_new, << ModelNode >> }

\* The most processors handed to import_fbx.
MaxProcessors == 2

\* The processors, by name.
Processors == { "triangulate", "other" }

ProcessorLists == SeqsUpTo(Processors, MaxProcessors)

InitImport ==
    /\ nodes \in RootCollections
    /\ gi = 0
    /\ meshes = <<>>
    /\ scene = Pending
    /\ ipc = "start"
    /\ data = <<>>
    /\ pos = 0
    /\ pc = "idle"
    /\ stack = <<>>
    /\ result = <<>>
    /\ err = NoError
    /\ version = -1
    /\ FaceIdle
    /\ mesh_processors \in ProcessorLists
    /\ mi = 0
    /\ pj = 0
    /\ calls = <<>>
    /\ TriIdle

NextImport ==
    \/ ImportStart
    \/ ImportGeometry
    \/ ImportReturn
    \/ ImportReturned
    \/ ProcessMesh
    \/ NextMesh
    \/ ImportFbxReturn

SpecImport == InitImport /\ [][NextImport]_vars

(***************************************************************************)
(* Claims about import (checked under SpecImport)                          *)
(***************************************************************************)
HasObjects == \E k \in 1..Len(nodes) : nodes[k].name = NameObjects

\* The children of the Objects node import uses (the first one).
ObjectsNodeChildren ==
    nodes[CHOOSE k \in 1..Len(nodes) :
            /\ nodes[k].name = NameObjects
            /\ \A j \in 1..(k - 1) : nodes[j].name # NameObjects].children

NoGeometryChildren ==
    \A k \in 1..Len(ObjectsNodeChildren) : ObjectsNodeChildren[k].name # NameGeometry

\* C9 as stated: with an Objects node that has no Geometry children, import
\* returns a Scene whose mesh list is empty.
C9_EmptySceneWithoutGeometry ==
    (ipc = "done" /\ HasObjects /\ NoGeometryChildren) => scene = Some(Scene(<<>>))

HasChild(g, name) == \E k \in 1..Len(g.children) : g.children[k].name = name

\* The node passes the Mesh filter of lines 119-135.
PassesMeshFilter(g) ==
    /\ Len(g.properties) >= 3
    /\ g.properties[3] = PropStr(StrMesh)

\* A Geometry node that passes the Mesh filter and lacks a required child.
LacksRequired(g) ==
    /\ g.name = NameGeometry
    /\ PassesMeshFilter(g)
    /\ ~HasChild(g, NameVertices) \/ ~HasChild(g, NamePolygonVertexIndex)

\* C10: import returns (a Scene or None) only when the root has an Objects
\* node and no Geometry node under it that passes the Mesh filter lacks
\* Vertices or PolygonVertexIndex; it panics at once when Objects is missing
\* and at the first such Geometry node it comes to; and a panic returns
\* nothing and keeps no mesh, whatever was built before.
C10_MissingRequiredAborts ==
    /\ [](ipc = "done" =>
            /\ HasObjects
            /\ \A k \in 1..Len(ObjectsNodeChildren) : ~LacksRequired(ObjectsNodeChildren[k]))
    /\ [](ipc = "panic" => (scene = Pending /\ meshes = <<>>))
    /\ [][(ipc = "start" /\ ~HasObjects) => ipc' = "panic"]_vars
    /\ [][(ipc = "loop" /\ gi <= Len(Geometries) /\ LacksRequired(Geometries[gi]))
            => ipc' = "panic"]_vars

\* C10 witness: import has panicked at its second Geometry node, which lacks
\* a required child, after building a mesh from the first.
C10_Witness ==
    /\ ipc = "panic"
    /\ gi = 2
    /\ import_geometry(Geometries[1]).kind = "push"
    /\ LacksRequired(Geometries[2])

(***************************************************************************)
(* More claims about the property decoders (checked under SpecProperty)    *)
(***************************************************************************)
\* The buffer starts with an array property of one of the kinds ts, and its
\* first property has been decoded.
FirstIsArray(ts) ==
    /\ stack # <<>>
    /\ Len(data) >= 13
    /\ data[1] \in ts
    /\ Top.properties # <<>>

\* The bytes the elements of the first array property of the buffer are made
\* of: the payload itself when encoding = 0, the inflated payload otherwise.
FirstArrayBytes ==
    IF LeU32(Bytes(data, 5, 4)) = 0
    THEN Bytes(data, 13, ElemSize(data[1]) * LeU32(Bytes(data, 1, 4)))
    ELSE Inflate(Bytes(data, 13, LeU32(Bytes(data, 9, 4)))).out

\* C11: an 'f', 'd', 'l' or 'i' array decodes to declared_length elements
\* when encoding = 0, and to floor(inflated length / element size) elements
\* otherwise, whatever length is declared; element k is made of the k-th
\* group of element-size bytes, and bytes after the last whole group are
\* ignored.
C11_ElementCount ==
    FirstIsArray({ Tagf, Tagd, Tagl, Tagi }) =>
      LET size == ElemSize(data[1])
          value == Top.properties[1].value
      IN /\ LeU32(Bytes(data, 5, 4)) = 0 => Len(value) = LeU32(Bytes(data, 1, 4))
         /\ LeU32(Bytes(data, 5, 4)) # 0 =>
              /\ Inflate(Bytes(data, 13, LeU32(Bytes(data, 9, 4)))).ok
              /\ Len(value) = Len(FirstArrayBytes) \div size
         /\ \A k \in 1..Len(value) :
              LET b == Bytes(FirstArrayBytes, size * (k - 1), size)
              IN IF data[1] = Tagi THEN I32Bytes(value[k]) = b ELSE value[k] = b

\* C11 witness: a compressed 'i' array that declares length 0 and inflates to
\* 3 elements and 3 bytes more has been decoded to its 3 elements.
C11_Witness ==
    /\ FirstIsArray({ Tagi })
    /\ LeU32(Bytes(data, 1, 4)) = 0
    /\ LeU32(Bytes(data, 5, 4)) # 0
    /\ Len(FirstArrayBytes) = 15
    /\ Len(Top.properties[1].value) = 3

\* C13: a 'C' property is decoded from the one byte after its type code and is
\* true exactly when that byte is 1; a 'b' array, raw or compressed, has one
\* element per byte of its payload (per byte of the inflated payload when
\* compressed), each true exactly when its byte is 1.
C13_BoolIsByteOne ==
    /\ (stack # <<>> /\ Len(data) >= 2 /\ data[1] = TagC /\ Top.properties # <<>>) =>
          /\ Top.properties[1] = Prop("Boolean", data[2] = 1)
          /\ Len(Top.properties) = 1 => pos = 2
          /\ (Len(Top.properties) = 2 /\ data \in BoolBuffers) =>
                Top.properties[2] =
                  Prop("BooleanArray", << data[2] = 1, TRUE >>)
    /\ FirstIsArray({ Tagb }) =>
          LET value == Top.properties[1].value
          IN /\ Top.properties[1].type = "BooleanArray"
             /\ Len(value) = Len(FirstArrayBytes)
             /\ \A k \in 1..Len(value) : value[k] = (FirstArrayBytes[k] = 1)

\* C13 witness: the 'C' byte 255 and the raw 'b' bytes 255, 1 have been
\* decoded to false and [false, true].
C13_Witness ==
    /\ data \in BoolBuffers
    /\ data[2] = 255
    /\ pc = "props_check"
    /\ Top.properties = << Prop("Boolean", FALSE),
                           Prop("BooleanArray", << FALSE, TRUE >>) >>

\* The value of a scalar of type code t, from its bytes b, computed apart
\* from the decoders: sums of the bytes for the integers.
ScalarOf(t, b) ==
    CASE t = TagY -> Prop("SignedInt16",
                          IF b[2] < 128 THEN b[1] + 256 * b[2]
                          ELSE b[1] + 256 * b[2] - 65536)
      [] t = TagI -> Prop("SignedInt32",
                          IF b[4] < 128
                          THEN b[1] + 256 * b[2] + 65536 * b[3] + 16777216 * b[4]
                          ELSE (b[1] + 256 * b[2] + 65536 * b[3]
                                  + 16777216 * (b[4] - 128)) - U32Clamp - 1)
      [] t = TagL -> Prop("SignedInt64", b)
      [] t = TagF -> Prop("Float", b)
      [] t = TagD -> Prop("Double", b)
      [] OTHER    -> Prop("Boolean", b = << 1 >>)

\* C14: a scalar property (Y, I, L, F, D or C) is decoded from exactly the 2,
\* 4, 8, 4, 8 or 1 bytes after its type code, as their little-endian value,
\* and the stream is left right after them; when fewer bytes remain, the
\* decoder returns an I/O error and no value.
C14_ScalarWidth ==
    (stack # <<>> /\ data \in ScalarBuffers) =>
      LET w == Width(data[1])
      IN IF Len(data) - 1 < w
         THEN /\ Top.properties = <<>>
              /\ pos = 0
              /\ pc \in { "props", "error" }
              /\ pc = "error" => err = IOError
         ELSE /\ Top.properties = <<>> => (pc = "props" /\ pos = 0)
              /\ Top.properties # <<>> =>
                    Top.properties[1] = ScalarOf(data[1], Bytes(data, 1, w))
              /\ Len(Top.properties) = 1 => pos = 1 + w

\* C14 witness: the bytes [1, 2] have been decoded as the int16 513.
C14_Witness ==
    /\ data = << TagY, 1, 2 >>
    /\ Top.properties = << Prop("SignedInt16", 513) >>
    /\ pos = 3

(***************************************************************************)
(* More claims about parse_node and parse_nodes (checked under Spec)       *)
(***************************************************************************)
KnownTags ==
    { TagY, TagC, TagI, TagF, TagD, TagL, Tagf, Tagd, Tagl, Tagi, Tagb, TagS, TagR }

\* parse_properties is about to decode a property whose type code is none of
\* the thirteen.
AtUnknownTag ==
    /\ pc = "props"
    /\ Len(Top.properties) < Top.num_properties
    /\ CanRead(data, pos, 1)
    /\ data[pos + 1] \notin KnownTags

\* C12: a property whose tag byte is none of Y C I F D L f d l i b S R yields
\* no property value: decoding ends there in a panic, no call of parse_node
\* gains a property or a child, parse_nodes gains no record, and nothing is
\* decoded afterwards, so no node tree is returned.
C12_UnknownTagFatal ==
    /\ [][AtUnknownTag => (pc' = "panic" /\ err' = Panic("Unexpected type_code")
                             /\ NoRecord)]_vars
    /\ [][pc # "panic"]_vars

\* C12 witness: decoding has ended at an unknown tag inside a nested node,
\* with a top-level record decoded before.
C12_Witness ==
    /\ pc = "panic"
    /\ err = Panic("Unexpected type_code")
    /\ CanRead(data, pos, 1)
    /\ data[pos + 1] \notin KnownTags
    /\ Len(stack) >= 2

\* C18: a failure of a decoding step at any depth ends the decoding with
\* that error: the step adds no property, child or record; it is the only
\* step that sets an error; nothing is decoded after it (no step is taken
\* and the position stays); and parse_nodes returns its list of records only
\* when no step failed.
C18_FirstErrorPropagates ==
    /\ [][err' # err => (err = NoError /\ pc' \in { "error", "panic" } /\ NoRecord)]_vars
    /\ [][pc' \in { "error", "panic" } => err' # NoError]_vars
    /\ [][pc \notin { "error", "panic" }]_vars
    /\ [](pc = "error" => err.kind \in { "IOError", "FormatError", "ValidationError" })
    /\ [](pc = "done" => err = NoError)

\* C18 witness: decoding has failed with an error two levels deep, after a
\* child of the enclosing node was decoded.
C18_Witness ==
    /\ pc = "error"
    /\ err.kind = "ValidationError"
    /\ Len(stack) >= 3
    /\ stack[1].child_nodes # <<>>
    /\ stack[2].child_nodes # <<>>

\* The names of a tree of input nodes, nested as the nodes are.
RECURSIVE InShape(_)
InShape(n) ==
    [name |-> n.name, children |-> [k \in 1..Len(n.children) |-> InShape(n.children[k])]]

\* The names of a tree of decoded records, nested as the records are.
RECURSIVE RecordShape(_)
RecordShape(r) ==
    [name |-> r.name,
     children |-> [k \in 1..Len(r.nested_list) |-> RecordShape(r.nested_list[k])]]

\* The record parse_node returns for its top frame.
TopRecord == NodeRecord(Top.name, Top.properties, Top.child_nodes)

\* C20: after the properties, with the position below end_offset, parse_node
\* fails with a validation error when fewer than 13 bytes are left before
\* end_offset and enters the child loop otherwise; the loop decodes a record
\* while the position is below end_offset - 13 and then goes on to the
\* sentinel; a zero end_offset read in the loop adds no child and goes back to
\* the loop condition; every record decoded in the loop is appended to the
\* children, which change in no other way; so the children of a decoded node
\* are its non-terminator records in stream order.
C20_ChildLoop ==
    /\ [][(pc = "children" /\ pos < Top.end_offset)
            => IF Top.end_offset - pos < 13
               THEN /\ RejectedWith("insufficient amount of bytes at end of node")
                    /\ NoRecord
               ELSE /\ pc' = "child_loop"
                    /\ NoRecord /\ pos' = pos /\ err' = err]_vars
    /\ [][(pc = "children" /\ pos >= Top.end_offset)
            => (pc' = "end_check" /\ NoRecord /\ Top.child_nodes = <<>>)]_vars
    /\ [][pc = "child_loop"
            => /\ pc' = IF pos < Top.end_offset - 13 THEN "node_start" ELSE "sentinel"
               /\ NoRecord /\ pos' = pos]_vars
    /\ [][(pc = "node_start" /\ stack # <<>> /\ CanRead(data, pos, 4)
             /\ Bytes(data, pos, 4) = Zeros(4))
            => (pc' = "child_loop" /\ NoRecord /\ pos' = pos + 4 /\ err' = err)]_vars
    /\ [][(pc = "node_ok" /\ Len(stack) >= 2)
            => /\ pc' = "child_loop"
               /\ stack' = [Front(stack) EXCEPT ![Len(stack) - 1].child_nodes =
                                                   Append(@, TopRecord)]]_vars
    /\ [][\A k \in 1..Len(stack) :
             (k <= Len(stack') /\ stack'[k].child_nodes # stack[k].child_nodes)
               => (pc = "node_ok" /\ k = Len(stack) - 1)]_vars
    /\ [](pc \in { "sentinel", "end_check", "node_ok" }
            => /\ Len(stack) >= 1
               /\ Top.child_nodes # <<>> => pos >= Top.end_offset - 13)
    /\ []((pc = "done" /\ data \in WellFormedFiles)
            => [k \in 1..Len(result) |-> RecordShape(result[k])]
                 = [k \in 1..Len(TreesOf(data)) |-> InShape(TreesOf(data)[k])])

\* C20 witness: a node whose child loop read a zero end_offset first has been
\* decoded with the two records after it as its children.
C20_Witness ==
    /\ data = TerminatorFirstFile
    /\ pc = "done"
    /\ Len(result) = 2
    /\ Len(result[1].nested_list) = 2
    /\ result[1].nested_list[1].name = << 65 >>
    /\ result[1].nested_list[2].name = << 67 >>

\* C21: parse_nodes decodes a top-level record while the position is below
\* file_length and returns when it is not; a zero end_offset read at the top
\* level makes it return too, adding nothing; each record decoded at the top
\* level is appended to the result, which changes in no other way and is
\* final once parse_nodes has returned: the root node list is the records
\* decoded, in stream order.
C21_TopLevelLoop ==
    /\ [][pc = "nodes_loop"
            => /\ pc' = IF pos < file_length THEN "node_start" ELSE "done"
               /\ NoRecord /\ pos' = pos /\ err' = err]_vars
    /\ [][(pc = "node_start" /\ stack = <<>> /\ CanRead(data, pos, 4)
             /\ Bytes(data, pos, 4) = Zeros(4))
            => (pc' = "done" /\ NoRecord /\ err' = err)]_vars
    /\ [][(pc = "node_ok" /\ Len(stack) = 1)
            => (pc' = "nodes_loop" /\ result' = Append(result, TopRecord)
                /\ stack' = <<>>)]_vars
    /\ [][result' # result => (pc = "node_ok" /\ Len(stack) = 1)]_vars
    /\ [][pc # "done"]_vars
    /\ []((pc = "done" /\ data \in WellFormedFiles)
            => /\ Len(result) = Len(TreesOf(data))
               /\ \A k \in 1..Len(result) :
                    RecordShape(result[k]) = InShape(TreesOf(data)[k]))

\* C21 witness: parse_nodes has returned two records after reading the
\* terminator that follows them, with bytes of the file left.
C21_Witness ==
    /\ pc = "done"
    /\ Len(result) = 2
    /\ pos < file_length
    /\ Bytes(data, pos - 4, 4) = Zeros(4)
    /\ result[1].name # result[2].name

\* Where the record of frame f starts: its header is 12 bytes, the length
\* byte of the name and the name, and ends at property_start_offset.
StartOf(f) == f.property_start_offset - (13 + Len(f.name))

\* The header of frame k of the stack has been read.
HeaderKnown(k) == k < Len(stack) \/ pc # "node_header"

\* The position is closer than a sentinel block to the end of the innermost
\* record: what ended here, a child or a terminator, ended beyond
\* end_offset - 13.
Beyond == stack # <<>> /\ pos > Top.end_offset - sentinel_block_length

\* C26: byte ranges are strictly nested.  A record returned by parse_node
\* ends at its end_offset, after its start; a child starts at or after the
\* end of its parent's properties and before the parent's end_offset - 13,
\* and hands its end_offset to the parent's loop as the position; and when
\* a child or a terminator has ended beyond the parent's
\* end_offset - 13 the parent fails: the loop of line 55 ends, the sentinel
\* block is read or fails, and line 71 finds the position past end_offset.
C26_ChildrenNested ==
    /\ [](pc = "node_ok" => (pos = Top.end_offset /\ Top.end_offset > StartOf(Top)))
    /\ [](pc \notin { "error", "panic" } =>
            \A k \in 2..Len(stack) :
                HeaderKnown(k) =>
                   /\ StartOf(stack[k]) >= stack[k - 1].property_start_offset
                                             + stack[k - 1].property_length_bytes
                   /\ StartOf(stack[k]) < stack[k - 1].end_offset - sentinel_block_length)
    /\ [][(pc = "node_ok" /\ Len(stack) >= 2)
             => (pc' = "child_loop" /\ pos' = Top.end_offset /\ Len(stack') = Len(stack) - 1)]_vars
    /\ [][(pc \in { "child_loop", "sentinel" } /\ Beyond)
             => /\ stack' = stack
                /\ \/ pc' \in { "sentinel", "error" }
                   \/ pc' = "end_check" /\ pos' > Top.end_offset]_vars
    /\ [][(pc = "end_check" /\ pos > Top.end_offset)
             => (pc' = "error" /\ NoRecord)]_vars

\* C26 witness: a child has been decoded that ends exactly 13 bytes before
\* the end of its parent, which is the last place it may end.
C26_Witness ==
    /\ pc = "node_ok"
    /\ Len(stack) = 2
    /\ pos = Top.end_offset
    /\ Top.end_offset = stack[1].end_offset - sentinel_block_length
    /\ StartOf(Top) >= stack[1].property_start_offset + stack[1].property_length_bytes

\* C28: parse_nodes returns Ok with one record or more only from the break
\* of line 91: the last four bytes it read are a zero end_offset, and the
\* position is below file_length after every top-level record, because a
\* top-level record whose end_offset is file_length is rejected at line 29.
C28_EndsWithTerminator ==
    /\ []((pc = "done" /\ result # <<>>) =>
            (pos >= 4 /\ Bytes(data, pos - 4, 4) = Zeros(4)))
    /\ [][(pc # "done" /\ pc' = "done" /\ result # <<>>)
             => (pc = "node_start" /\ stack = <<>> /\ pos' = pos + 4
                 /\ LeU32(Bytes(data, pos, 4)) = 0)]_vars
    /\ []((pc = "nodes_loop" /\ result # <<>>) => pos < file_length)
    /\ [][(pc = "node_start" /\ stack = <<>> /\ CanRead(data, pos, 4)
           /\ LeU32(Bytes(data, pos, 4)) = file_length)
             => (RejectedWith("end offset is outside bounds") /\ NoRecord)]_vars

\* C28 witness: parse_nodes returned a record and the terminator after it
\* was the last thing read, although the file goes on.
C28_Witness ==
    /\ pc = "done"
    /\ Len(result) >= 1
    /\ Bytes(data, pos - 4, 4) = Zeros(4)
    /\ pos < file_length

\* parse_fbx has returned or panicked.
Returned == pc \in { "done", "error", "panic" }

\* C27: parse_nodes terminates.  The position never goes back and stays
\* within the file; reading an end_offset moves it 4 bytes on or fails; a
\* record that parse_node returns, which is one iteration of the loop that
\* called it, ends 13 bytes or more after its start; there are never more
\* active parse_node calls than bytes in the file; and under SpecFair
\* decoding comes to an end.
C27_Terminates ==
    /\ <>Returned
    /\ [][pos' >= pos]_vars
    /\ [](pos <= file_length)
    /\ [][pc = "node_start" => (pos' = pos + 4 \/ (pc' = "error" /\ pos' = pos))]_vars
    /\ [](pc = "node_ok" => pos >= StartOf(Top) + sentinel_block_length)
    /\ [](Len(stack) <= file_length /\ 4 * Len(stack) <= pos)

\* C27 witness: decoding came to its end after a recursion: a top-level
\* record with a child has been returned.
C27_Witness ==
    /\ pc = "done"
    /\ \E k \in 1..Len(result) : result[k].nested_list # <<>>

(***************************************************************************)
(* More claims about import (checked under SpecImport)                     *)
(***************************************************************************)
\* The Mesh filter skips the node: fewer than 3 properties, or a 3rd property
\* that is not the String "Mesh".
FilteredOut(g) == ~PassesMeshFilter(g)

\* C16: a Geometry node with fewer than 3 properties, or whose 3rd property is
\* not the string "Mesh", is skipped: the loop goes on to the next node with
\* the meshes it had, and import does not fail, whatever the other properties
\* and the children of the node.
C16_NonMeshSkipped ==
    [][(ipc = "loop" /\ gi <= Len(Geometries) /\ FilteredOut(Geometries[gi]))
         => (ipc' = "loop" /\ gi' = gi + 1 /\ meshes' = meshes /\ err' = NoError)]_vars

\* The meshes import has built so far and those of the Scene it returned.
ProducedMeshes ==
    { meshes[k] : k \in 1..Len(meshes) }
      \cup (IF scene.some THEN { scene.value.meshes[k] : k \in 1..Len(scene.value.meshes) }
            ELSE {})

\* C17: every Face of every Mesh produced by import has at least 3 indices.
C17_FacesHaveThreeIndices ==
    \A mesh \in ProducedMeshes :
      \A j \in 1..Len(mesh.faces) : Len(mesh.faces[j].indices) >= 3

\* The calls of process on mesh m, in the order they were made.
CallsOn(m) == SelectSeq(calls, LAMBDA c : c.mesh = m)

\* C19: process is called only inside import_fbx's loops, that is after
\* import returned Some(scene) and before import_fbx returns; the calls leave
\* the scene with the meshes import returned, by number and name; and when
\* import_fbx returns, the calls made on each mesh of the scene are one per
\* processor of the list, in the order of the list, and there are no other
\* calls.
C19_ProcessOncePerPair ==
    /\ [](ipc \in { "idle", "start", "loop", "panic", "done" } => calls = <<>>)
    /\ [][calls' # calls
            => /\ ipc = "process" /\ ipc' = "process"
               /\ scene.some /\ scene'.some
               /\ Len(calls') = Len(calls) + 1
               /\ Len(scene'.value.meshes) = Len(scene.value.meshes)
               /\ \A m \in 1..Len(scene.value.meshes) :
                    scene'.value.meshes[m].name = scene.value.meshes[m].name]_vars
    /\ [][ipc = "returned" => calls' = calls]_vars
    /\ [](ipc = "returned" =>
            IF scene.some
            THEN /\ Len(calls) = Len(scene.value.meshes) * Len(mesh_processors)
                 /\ \A m \in 1..Len(scene.value.meshes) :
                      CallsOn(m) = [p \in 1..Len(mesh_processors) |-> Call(m, p)]
            ELSE calls = <<>>)

\* C19 witness: import_fbx has returned a scene of two meshes after the four
\* calls of two processors, one of which rewrote a mesh.
C19_Witness ==
    /\ ipc = "returned"
    /\ scene.some
    /\ Len(scene.value.meshes) = 2
    /\ mesh_processors = << "other", "triangulate" >>
    /\ Len(calls) = 4
    /\ scene.value.meshes[1].faces = <<>>
    /\ scene.value.meshes[2].faces # <<>>

\* The Geometry children of Objects that pass the Mesh filter, in their order.
MeshNodes ==
    SelectSeq(ObjectsNodeChildren,
              LAMBDA g : g.name = NameGeometry /\ PassesMeshFilter(g))

\* C22: the Scene import returns has one Mesh for each Geometry child of
\* Objects that passes the filter, in the order of those nodes, each named by
\* the 2nd property of its node, a String.
C22_OneMeshPerMeshNode ==
    (ipc = "done" /\ scene.some) =>
      /\ Len(scene.value.meshes) = Len(MeshNodes)
      /\ \A k \in 1..Len(MeshNodes) :
           /\ MeshNodes[k].properties[2].type = "String"
           /\ scene.value.meshes[k].name = MeshNodes[k].properties[2].value

\* C22 witness: import has returned the meshes "B" and "A" of two Geometry
\* nodes, in that order.
C22_Witness ==
    /\ ipc = "done"
    /\ scene.some
    /\ Len(MeshNodes) = 2
    /\ Len(scene.value.meshes) = 2
    /\ scene.value.meshes[1].name = << 66 >>
    /\ scene.value.meshes[2].name = << 65 >>

\* The first Vertices child of g.
VerticesOf(g) ==
    g.children[CHOOSE k \in 1..Len(g.children) :
                 /\ g.children[k].name = NameVertices
                 /\ \A j \in 1..(k - 1) : g.children[j].name # NameVertices]

\* The first property of the Vertices node v is a float64 array whose length
\* is a multiple of 3.
WholeTriples(v) ==
    /\ v.properties # <<>>
    /\ v.properties[1].type = "DoubleArray"
    /\ Len(v.properties[1].value) % 3 = 0

\* C23: for a Geometry node that passes the filter and has a Vertices child,
\* import goes on only when the first property of that child is a float64
\* array whose length is a multiple of 3, and fails otherwise; a Mesh it
\* builds has length/3 vertices, vertex j made of the elements 3j, 3j+1,
\* 3j+2 of the array (counting from 0), as 32-bit floats.
C23_VerticesInTriples ==
    [][(ipc = "loop" /\ gi <= Len(Geometries) /\ PassesMeshFilter(Geometries[gi])
          /\ Geometries[gi].properties[2].type = "String"
          /\ HasChild(Geometries[gi], NameVertices))
         => LET v == VerticesOf(Geometries[gi])
            IN IF ~WholeTriples(v) THEN ipc' = "panic" /\ meshes' = meshes
               ELSE meshes' # meshes =>
                      LET arr == v.properties[1].value
                          mesh == meshes'[Len(meshes')]
                      IN /\ Len(mesh.vertices) = Len(arr) \div 3
                         /\ \A j \in 1..Len(mesh.vertices) :
                              mesh.vertices[j] = << F64ToF32(arr[3 * j - 2]),
                                                    F64ToF32(arr[3 * j - 1]),
                                                    F64ToF32(arr[3 * j]) >>]_vars

(***************************************************************************)
(* SpecCollection: a NodeCollection built by insert calls                  *)
(***************************************************************************)
\* The most insert calls.
MaxInsert == 4

\* The records inserted: two named Objects that differ in their properties,
\* one named Geometry, one named Model.
InsertNodes ==
    { Node(NameObjects, <<>>, NodeCollection_new),
      Node(NameObjects, << PropId >>, NodeCollection_new),
      Node(NameGeometry, << PropId >>, NodeCollection_new),
      Node(NameModel, <<>>, NodeCollection_new) }

\* The names looked up: those of the records, and one never inserted.
LookupNames == { NameObjects, NameGeometry, NameModel, NameVertices }

\* NodeCollection::new()
InitCollection ==
    /\ ParseIdle
    /\ ImportIdle
    /\ FaceIdle
    /\ FbxIdle
    /\ TriIdle
    /\ nodes = NodeCollection_new

\* nodes.insert(node)
CollectionInsert ==
    /\ Len(nodes) < MaxInsert
    /\ \E node \in InsertNodes : nodes' = NodeCollection_insert(nodes, node)
    /\ UNCHANGED <<parseVars, faceVars, fbxVars, triVars, gi, meshes, scene, ipc>>

NextCollection == CollectionInsert

SpecCollection == InitCollection /\ [][NextCollection]_vars

\* The vector of an Option<&Vec<NodeRecord>>, empty for None.
VecOf(o) == IF o.some THEN o.value ELSE <<>>

\* C15: get_multiple of a new collection is absent for every name; an insert
\* of a record appends it to what get_multiple returns for its name and
\* leaves the other names as they were, so get_multiple(name) is all the
\* records inserted under name in insertion order, never an empty vector;
\* get(name) is the first of them, fails with NoSuchNode exactly when
\* get_multiple(name) is absent, and with nothing else.
C15_GetFirstGetMultipleAll ==
    /\ \A name \in LookupNames : NodeCollection_get_multiple(nodes, name) = None
    /\ [][\E node \in InsertNodes : \A name \in LookupNames :
             NodeCollection_get_multiple(nodes', name) =
               IF node.name = name
               THEN Some(Append(VecOf(NodeCollection_get_multiple(nodes, name)), node))
               ELSE NodeCollection_get_multiple(nodes, name)]_vars
    /\ [](\A name \in LookupNames :
             LET all == NodeCollection_get_multiple(nodes, name)
                 first == NodeCollection_get(nodes, name)
             IN /\ all.some => (all.value # <<>> /\ first = Found(all.value[1]))
                /\ ~all.some => first = Err(NoSuchNode))

\* C15 witness: two different records named Objects were inserted, with a
\* record of another name between them; get returns the first.
C15_Witness ==
    /\ ipc = "idle"
    /\ Len(nodes) = 3
    /\ nodes[1].name = NameObjects
    /\ nodes[2].name = NameGeometry
    /\ nodes[3].name = NameObjects
    /\ nodes[1] # nodes[3]
    /\ NodeCollection_get_multiple(nodes, NameObjects) = Some(<< nodes[1], nodes[3] >>)
    /\ NodeCollection_get(nodes, NameObjects) = Found(nodes[1])

(***************************************************************************)
(* SpecTriangulate: TriangulateMeshProcessor.process on one mesh           *)
(***************************************************************************)
MaxX == 2
GridRows == 0..2
GridPoints == { << x, y, 0 >> : x \in 0..MaxX, y \in GridRows }

Distinct(q) == \A j, k \in 1..Len(q) : j # k => q[j] # q[k]

NameQuad == << 81 >>
NamePolygon == << 80 >>

\* Every quad of four different grid points, simple or not, as face 0 1 2 3.
GridQuads ==
    { Mesh(NameQuad, q, << Face(<< 0, 1, 2, 3 >>) >>) :
        q \in { p \in [1..4 -> GridPoints] : Distinct(p) } }

Square == << << 0, 0 >>, << 1, 0 >>, << 1, 1 >>, << 0, 1 >> >>
ConvexPentagon == << << 0, 0 >>, << 2, 0 >>, << 3, 1 >>, << 1, 2 >>, << 0, 1 >> >>
ConcavePentagon == << << 0, 0 >>, << 2, 0 >>, << 1, 1 >>, << 2, 2 >>, << 0, 2 >> >>
StepPentagon == << << 0, 0 >>, << 0, 1 >>, << 1, 1 >>, << 2, 2 >>, << 2, 1 >> >>
Hexagon == << << 0, 0 >>, << 1, 0 >>, << 2, 1 >>, << 2, 2 >>, << 1, 2 >>, << 0, 1 >> >>

\* A 2d polygon laid into the plane z = 1, x = 1 or y = 1.
InPlane(p, plane) ==
    [ k \in 1..Len(p) |->
        IF plane = "z" THEN << p[k][1], p[k][2], 1 >>
        ELSE IF plane = "x" THEN << 1, p[k][1], p[k][2] >>
        ELSE << p[k][2], 1, p[k][1] >> ]

Reversed(p) == [ k \in 1..Len(p) |-> p[Len(p) + 1 - k] ]

Rotated(p, r) == [ k \in 1..Len(p) |-> p[((k - 1 + r) % Len(p)) + 1] ]

WholeFace(n) == Face([ k \in 1..n |-> k - 1 ])

Polygons ==
    { Mesh(NamePolygon, InPlane(Rotated(q, r), plane), << WholeFace(Len(q)) >>) :
        q \in UNION { { p, Reversed(p) } :
                         p \in { Square, ConvexPentagon, ConcavePentagon,
                                 StepPentagon, Hexagon } },
        r \in 0..1, plane \in { "x", "y", "z" } }

TriangleFace == Face(<< 0, 1, 2 >>)

\* Meshes with triangles, with several faces, with a face over the later
\* vertices of the mesh, with a face of two indices, and with an index that
\* is no vertex of the mesh.
MixedMeshes ==
    LET seven == InPlane(Square, "z") \o << << 2, 0, 1 >>, << 2, 1, 1 >>, << 3, 1, 1 >> >>
    IN  { Mesh(NamePolygon, InPlane(Square, "z"), << TriangleFace >>),
          Mesh(NamePolygon, InPlane(Square, "z"), << TriangleFace, Face(<< 0, 2, 3 >>) >>),
          Mesh(NamePolygon, InPlane(Square, "z"), << TriangleFace, WholeFace(4) >>),
          Mesh(NamePolygon, InPlane(Square, "z"), << WholeFace(4), Face(<< 1, 2, 3, 0 >>) >>),
          Mesh(NamePolygon, InPlane(Square, "z"), << Face(<< 0, 1 >>), WholeFace(4) >>),
          Mesh(NamePolygon, InPlane(Square, "z"), << Face(<< 0, 1, 2, 9 >>) >>),
          Mesh(NamePolygon, InPlane(Square, "z"), << Face(<< 0, 1, 2, -1 >>) >>),
          Mesh(NamePolygon, seven, << TriangleFace, Face(<< 1, 4, 5, 2 >>) >>),
          Mesh(NamePolygon, seven, << Face(<< 1, 4, 5, 2 >>) >>),
          Mesh(NamePolygon, seven, << Face(<< 1, 4, 6, 5, 2 >>) >>),
          Mesh(NamePolygon, <<>>, <<>>) }

TriMeshes == GridQuads \cup Polygons \cup MixedMeshes

InitTriangulate ==
    /\ tmesh \in TriMeshes
    /\ writable \in BOOLEAN
    /\ new_faces = <<>>
    /\ face_counter = 0
    /\ clipped_vertices = <<>>
    /\ polygon_size = 0
    /\ i_for = 0
    /\ tpc = "faces"
    /\ ParseIdle
    /\ ImportIdle
    /\ FaceIdle
    /\ FbxIdle

NextTriangulate ==
    \/ TriFace
    \/ TriWhile
    \/ TriFor

SpecTriangulate == InitTriangulate /\ [][NextTriangulate]_vars

(***************************************************************************)
(* Claims about process (checked under SpecTriangulate)                    *)
(***************************************************************************)
ProcessReturns == tpc = "faces" /\ tpc' = "done"

\* The polygon of a face: its vertices in the order of its indices.
PolygonOf(face, vertices) ==
    [ k \in 1..Len(face.indices) |-> vertices[face.indices[k] + 1] ]

\* A polygon in a plane where coordinate c is constant, without that coordinate.
Flat(p, c) ==
    [ k \in 1..Len(p) |->
        IF c = 1 THEN << p[k][2], p[k][3] >>
        ELSE IF c = 2 THEN << p[k][3], p[k][1] >>
        ELSE << p[k][1], p[k][2] >> ]

Cross(o, a, b) == ((a[1] - o[1]) * (b[2] - o[2])) - ((a[2] - o[2]) * (b[1] - o[1]))

Between(lo, hi, x) ==
    (lo <= x /\ x <= hi) \/ (hi <= x /\ x <= lo)

OnSegment(a, b, p) ==
    Cross(a, b, p) = 0 /\ Between(a[1], b[1], p[1]) /\ Between(a[2], b[2], p[2])

Opposite(d1, d2) == (d1 > 0 /\ d2 < 0) \/ (d1 < 0 /\ d2 > 0)

SegmentsMeet(a, b, c, d) ==
    \/ Opposite(Cross(c, d, a), Cross(c, d, b)) /\ Opposite(Cross(a, b, c), Cross(a, b, d))
    \/ OnSegment(c, d, a) \/ OnSegment(c, d, b)
    \/ OnSegment(a, b, c) \/ OnSegment(a, b, d)

\* Two edges that share the corner s and run back over each other.
FoldedAt(s, a, b) ==
    /\ Cross(s, a, b) = 0
    /\ ((a[1] - s[1]) * (b[1] - s[1])) + ((a[2] - s[2]) * (b[2] - s[2])) > 0

\* A simple polygon: the corners are different points, neighbouring edges
\* meet only in their corner, and no other two edges meet at all.
Simple2d(p) ==
    LET n == Len(p)
        At(k) == p[((k - 1) % n) + 1]
    IN  /\ n >= 3
        /\ Distinct(p)
        /\ \A k \in 1..n : ~FoldedAt(At(k + 1), At(k), At(k + 2))
        /\ \A j, k \in 1..n :
              (j < k /\ k # j + 1 /\ ~(j = 1 /\ k = n))
                 => ~SegmentsMeet(At(j), At(j + 1), At(k), At(k + 1))

SimplePlanar(face, vertices) ==
    /\ Len(face.indices) >= 3
    /\ IndicesInBounds(face, vertices)
    /\ \E c \in 1..3 :
          /\ \A k \in 1..Len(face.indices) :
                PolygonOf(face, vertices)[k][c] = PolygonOf(face, vertices)[1][c]
          /\ Simple2d(Flat(PolygonOf(face, vertices), c))

\* How many triangles the first k faces should give: n - 2 for n indices.
RECURSIVE TrianglesOf(_, _)
TrianglesOf(fs, k) ==
    IF k = 0 THEN 0 ELSE TrianglesOf(fs, k - 1) + (Len(fs[k].indices) - 2)

Triangulated(before, after) ==
    /\ Len(after) = TrianglesOf(before, Len(before))
    /\ \A k \in 1..Len(before) :
          \A j \in (TrianglesOf(before, k - 1) + 1)..TrianglesOf(before, k) :
              j <= Len(after) =>
                 /\ Len(after[j].indices) = 3
                 /\ \A m \in 1..3 :
                       \E h \in 1..Len(before[k].indices) :
                           after[j].indices[m] = before[k].indices[h]

PolygonsOnly(mesh) ==
    /\ mesh.faces # <<>>
    /\ \A k \in 1..Len(mesh.faces) :
          /\ Len(mesh.faces[k].indices) > 3
          /\ SimplePlanar(mesh.faces[k], mesh.vertices)

\* C24: on a mesh whose faces are simple planar polygons of n > 3 indices,
\* process does not panic where its images can be saved, and when it returns
\* each face has been replaced, in order, by exactly n - 2 faces of 3 indices
\* that are all indices of that face (a quad by 2 triangles).
C24_PolygonToTriangles ==
    /\ [][(ProcessReturns /\ PolygonsOnly(tmesh))
             => Triangulated(tmesh.faces, tmesh'.faces)]_vars
    /\ []((writable /\ PolygonsOnly(tmesh)) => tpc # "panic")

\* C25: process changes only the faces of the mesh: no step of it changes
\* the name or the vertex list, and the one step that changes the mesh puts
\* new_faces into mesh.faces as process returns.
C25_OnlyFacesChange ==
    /\ [][tmesh'.name = tmesh.name /\ tmesh'.vertices = tmesh.vertices]_vars
    /\ [][tmesh' # tmesh => ProcessReturns]_vars

\* C25 witness: process returned on a quad in the plane z = 1; the faces
\* are two triangles, the name and the four vertices are those of the quad.
C25_Witness ==
    /\ tpc = "done"
    /\ tmesh.name = NamePolygon
    /\ tmesh.vertices = InPlane(Square, "z")
    /\ tmesh.faces = << Face(<< 3, 0, 1 >>), Face(<< 3, 1, 2 >>) >>

\* C30: process keeps every face that has exactly 3 indices: when process
\* returns, each such face of the mesh is still one of its faces, unchanged.
C30_TrianglesKept ==
    [][ProcessReturns =>
          \A k \in 1..Len(tmesh.faces) :
              Len(tmesh.faces[k].indices) = 3 =>
                 \E j \in 1..Len(tmesh'.faces) : tmesh'.faces[j] = tmesh.faces[k]]_vars

=============================================================================
